---- MODULE Spec2Model ----
(***************************************************************************)
(* Client-side LDLM request engine of Lustre                               *)
(* (drivers/staging/lustre/lustre/ldlm/ldlm_request.c).                    *)
(*                                                                         *)
(* The lock objects, the resource lists and the namespace LRU are shared   *)
(* state; every critical section of the C code (one lock_res_and_lock ..   *)
(* unlock_res_and_lock region, one spin_lock(&ns->ns_lock) region) is one  *)
(* atomic step of the thread that runs it.                                 *)
(*                                                                         *)
(*   SpecEnqueue  one synchronous ldlm_cli_enqueue racing with the         *)
(*                completion notification, eviction and flock destroy      *)
(*   Spec         threads running ldlm_cli_cancel, the LRU scan, the       *)
(*                resource scan and lock replay over a set of cached locks *)
(***************************************************************************)
EXTENDS Integers, Sequences, FiniteSets, TLC

(* ------------------------------ bounds --------------------------------- *)

\* number of lock objects of the namespace
NLocks == 2
\* largest LVB length a caller passes to ldlm_cli_enqueue
MaxLvbLen == 1
\* number of threads that cancel, scan the LRU or replay
NThreads == 2
\* how often one cancel RPC is re-sent after a timeout
MaxRetry == 1
\* last tick of the clock
MaxNow == 2
\* largest server lock volume a reply announces
MaxSlv == 1
\* largest target and largest limit a caller passes to
\* ldlm_prepare_lru_list
MaxTarget == 2
MaxScan == 2

\* largest imp_conn_cnt the import reaches
MaxConn == 3

\* largest SLV and limit a reply carries
MaxPoolVal == 2

\* handles one cancel request has room for (ldlm_format_handles_avail)
HandlesAvail == 2
MaxAvail == 2
MaxRounds == 2
MaxAttempts == 3
MaxGen == 3
\* the namespace's ns_max_unused, ns_max_age (in ticks) and the lock
\* volume factor of its pool
ns_max_unused == 1
ns_max_age == 1
ns_pool_lvf == 1

Locks == 1..NLocks

Threads == 1..NThreads

\* the lock the modelled ldlm_cli_enqueue works on
EnqLock == CHOOSE l \in Locks : \A m \in Locks : l <= m

(* ----------------------------- vocabulary ------------------------------ *)

\* enum ldlm_mode; "NONE" is LCK_MINMODE (0): nothing granted
Modes == {"PR", "PW"}

\* enum ldlm_type
LockTypes == {"PLAIN", "EXTENT", "IBITS", "FLOCK"}

\* LDLM_FL_BLOCKED_MASK
LDLM_FL_BLOCKED_MASK == {"BLOCK_GRANTED", "BLOCK_CONV", "BLOCK_WAIT"}

\* LDLM_FL_INHERIT_MASK
LDLM_FL_INHERIT_MASK == {"CANCEL_ON_BLOCK", "NO_TIMEOUT"}

\* the flags failed_lock_cleanup stamps
FailedStamp == {"LOCAL_ONLY", "FAILED", "ATOMIC_CB", "CBPENDING"}

VARIABLES
    lk,              \* lock objects: l_req_mode, l_granted_mode, l_flags, ...
    lr_granted,      \* locks linked on the resource's lr_granted (l_res_link)
    lr_waiting,      \* locks linked on the resource's lr_waiting (l_res_link)
    ns_unused_list,  \* the namespace LRU (l_lru), front first
    enq,             \* the thread inside ldlm_cli_enqueue
    thr,             \* the threads cancelling, scanning and replaying
    imp,             \* the import: connect flags, imp_replay_inflight
    now              \* cfs_time_current(), in ticks

vars == <<lk, lr_granted, lr_waiting, ns_unused_list, enq, thr, imp, now>>

\* what ldlm_cli_enqueue leaves alone
cvars == <<thr, imp, now>>

(* ------------------------------ lock object ---------------------------- *)

\* a lock slot that holds no lock object yet
FreeLock ==
    [alive |-> FALSE, req_mode |-> "NONE", granted_mode |-> "NONE",
     flags |-> {}, type |-> "PLAIN", refs |-> 0, lvb |-> "none",
     res |-> "r0", remote |-> "none", last_used |-> 0]

ldlm_is_destroyed(l) == "DESTROYED" \in lk[l].flags
ldlm_is_failed(l) == "FAILED" \in lk[l].flags

\* the sequence s without the element x
SeqWithout(s, x) == SelectSeq(s, LAMBDA y : y # x)

InSeq(s, x) == \E i \in 1..Len(s) : s[i] = x

(* ------------------- threads of the cancel pipeline --------------------- *)

\* a thread outside the engine; the fields are the locals of the functions
\* it runs, cleared when the function returns, and a record of what the
\* call did: was_canceling (the lock was CANCELING when ldlm_cli_cancel
\* looked at it), cb (the thread ran the cancel callback of its lock),
\* linked (ldlm_cli_cancel linked its lock into the batch), rpc_sent (a
\* cancel request went out), rpc_failed (an attempt to send ended in an
\* error), sent (the locks replayed and their flags), prep_ret (what
\* ldlm_prepare_lru_list returned to a caller outside this engine), and of
\* ldlm_prep_elc_req avail, pack and given (the count of its caller);
\* holds lists the spinlocks the thread holds in the order it took them and
\* path the lock and unlock calls it still has to make; rq_gen is
\* rq_import_generation of the cancel request the thread waits for
ThreadIdle ==
    [pc |-> "idle", op |-> "none", lock |-> 0, cflags |-> {},
     cancels |-> <<>>, head |-> <<>>, chain |-> <<>>, count |-> 0,
     s_flags |-> {}, s_count |-> 0, s_max |-> 0, s_cflags |-> {},
     added |-> 0, unused |-> 0, remained |-> 0, cur |-> 0, last_use |-> 0,
     left |-> 0, pos |-> 1, bl_ast |-> 0, c_count |-> 0, c_flags |-> {},
     which |-> "none", l_count |-> 0, l_flags |-> {}, tries |-> 0,
     rc |-> "none", back |-> "none", list_ret |-> "none", ret |-> "none",
     was_canceling |-> FALSE, cb |-> FALSE, linked |-> FALSE,
     rpc_sent |-> FALSE, rpc_failed |-> FALSE, sent |-> {}, prep_ret |-> 0,
     new_slv |-> 0, new_limit |-> 0, seen_slv |-> 0, seen_limit |-> 0,
     stored |-> FALSE, avail |-> 0, pack |-> 0, given |-> 0,
     holds |-> <<>>, path |-> <<>>, rq_gen |-> 0, args |-> <<>>]

\* the import: its connect flags and imp_replay_inflight; queued counts the
\* replay requests handed to ptlrpcd and not yet interpreted; of its obd
\* device the pool fields obd_pool_slv and obd_pool_limit and the state of
\* obd_pool_lock (the thread that holds the write side, the number of
\* threads that hold the read side); imp_conn_cnt, and in fail_calls the
\* connection counts ptlrpc_fail_import was called with; imp_invalid and
\* imp_generation
ImportIdle ==
    [connect |-> {}, replay_inflight |-> 0, queued |-> 0,
     obd_pool_slv |-> 1, obd_pool_limit |-> 1,
     pool_writer |-> 0, pool_readers |-> 0,
     imp_conn_cnt |-> 1, fail_calls |-> {},
     imp_invalid |-> FALSE, imp_generation |-> 1,
     answered |-> {}, recovery_steps |-> 0, connect_calls |-> 0]

(* ---------- collaborators of ldlm_lock.c and lustre_dlm.h -------------- *)

\* is_granted_or_cancelled(): what the completion wait parks on
is_granted_or_cancelled(l) ==
    \/ lk[l].req_mode = lk[l].granted_mode
    \/ ldlm_is_failed(l)
    \/ ldlm_is_destroyed(l)

\* ldlm_lock_decref_internal(): drop the caller's mode reference; a lock
\* left without holders goes to the LRU unless it is pinned (NO_LRU), has a
\* blocking callback pending (CBPENDING, BL_AST) or is gone
DecrefAddsToLru(rec) ==
    /\ rec.refs = 1
    /\ rec.flags \cap {"CBPENDING", "NO_LRU", "BL_AST", "DESTROYED"} = {}

ldlm_lock_decref_internal(l) ==
    /\ lk' = [lk EXCEPT ![l].refs = IF @ > 0 THEN @ - 1 ELSE 0,
                        ![l].last_used =
                            IF DecrefAddsToLru(lk[l]) THEN now ELSE @]
    /\ ns_unused_list' =
           IF DecrefAddsToLru(lk[l]) /\ ~InSeq(ns_unused_list, l)
           THEN Append(ns_unused_list, l) ELSE ns_unused_list
    /\ UNCHANGED <<lr_granted, lr_waiting>>

\* ldlm_resource_unlink_lock + ldlm_lock_decref_internal_nolock +
\* ldlm_lock_destroy_nolock, as failed_lock_cleanup calls them for FLOCK
FlockUnlinkAndDestroy(l) ==
    /\ lk' = [lk EXCEPT ![l].refs = IF @ > 0 THEN @ - 1 ELSE 0,
                        ![l].flags = @ \cup {"DESTROYED"}]
    /\ lr_granted' = lr_granted \ {l}
    /\ lr_waiting' = lr_waiting \ {l}
    /\ ns_unused_list' = SeqWithout(ns_unused_list, l)

\* ldlm_lock_enqueue() on a client namespace: a lock the completion
\* notification already granted keeps its place and the blocked bits are
\* cleared from *flags; otherwise the lock is linked as the server said:
\* waiting for BLOCK_WAIT or BLOCK_GRANTED, granted otherwise
LockEnqueueGranted(l, fl) ==
    lk[l].req_mode = lk[l].granted_mode

LockEnqueueWaits(l, fl) ==
    /\ ~LockEnqueueGranted(l, fl)
    /\ fl \cap {"BLOCK_WAIT", "BLOCK_GRANTED"} # {}

ldlm_lock_enqueue(l, fl) ==
    /\ lk' = IF LockEnqueueGranted(l, fl) \/ LockEnqueueWaits(l, fl)
             THEN lk
             ELSE [lk EXCEPT ![l].granted_mode = lk[l].req_mode]
    /\ lr_granted' =
           IF LockEnqueueGranted(l, fl) THEN lr_granted
           ELSE IF LockEnqueueWaits(l, fl) THEN lr_granted \ {l}
           ELSE lr_granted \cup {l}
    /\ lr_waiting' =
           IF LockEnqueueGranted(l, fl) THEN lr_waiting
           ELSE IF LockEnqueueWaits(l, fl) THEN lr_waiting \cup {l}
           ELSE lr_waiting \ {l}
    /\ UNCHANGED ns_unused_list

\* *flags as ldlm_lock_enqueue leaves it
LockEnqueueFlags(l, fl) ==
    IF LockEnqueueGranted(l, fl) THEN fl \ LDLM_FL_BLOCKED_MASK ELSE fl

(* ======================================================================= *)
(*                 ldlm_cli_enqueue, synchronous (async = 0)               *)
(* ======================================================================= *)

\* the flags an enqueue reply carries on the wire
ReplyFlagBits ==
    LDLM_FL_BLOCKED_MASK \cup {"LOCK_CHANGED", "AST_SENT", "NO_TIMEOUT"}

\* the thread before it calls into the engine
EnqIdle ==
    [pc |-> "idle", op |-> "none", is_replay |-> FALSE, cb |-> "none",
     mode |-> "NONE", flags |-> {}, lvb |-> "absent", lvb_len |-> 0,
     rc |-> "OK", err |-> "OK", cleanup_phase |-> 1, flc_back |-> "none",
     created |-> FALSE, cp_calls |-> 0, flc_calls |-> 0,
     fail_point |-> "none", fini_rc |-> "none", ret |-> "none",
     lwd_conn_cnt |-> 0, expired |-> FALSE]

\* where "goto cleanup" of ldlm_cli_enqueue_fini leads: failed_lock_cleanup
\* runs only for cleanup_phase == 1 && rc
CleanupPc(phase, rc) ==
    IF phase = 1 /\ rc # "OK" THEN "flc_stamp" ELSE "fini_ret"

\* ldlm_cli_enqueue, lines 735-772: look the lock up (replay) or create it
\* and take the caller's mode reference
EnqueueStartReplay ==
    /\ enq.pc = "idle"
    /\ lk[EnqLock].alive
    /\ ~ldlm_is_destroyed(EnqLock)
    /\ \E cb \in {"sync", "async", "none"}, len \in 0..MaxLvbLen :
          enq' = [enq EXCEPT !.pc = "pack", !.op = "enqueue",
                             !.is_replay = TRUE, !.cb = cb,
                             !.mode = lk[EnqLock].req_mode,
                             !.flags = {"REPLAY"}, !.lvb_len = len,
                             !.lvb = IF len > 0 THEN "empty" ELSE "absent"]
    /\ UNCHANGED <<lk, lr_granted, lr_waiting, ns_unused_list>>
    /\ UNCHANGED cvars

EnqueueStartCreate ==
    /\ enq.pc = "idle"
    /\ ~lk[EnqLock].alive
    /\ \E cb \in {"sync", "async", "none"}, len \in 0..MaxLvbLen,
          type \in {"PLAIN", "FLOCK"}, mode \in Modes,
          fl \in SUBSET {"NO_LRU"} :
          /\ enq' = [enq EXCEPT !.pc = "pack", !.op = "enqueue",
                                !.cb = cb, !.mode = mode, !.flags = fl,
                                !.lvb_len = len,
                                !.lvb = IF len > 0 THEN "empty" ELSE "absent",
                                !.created = TRUE]
          /\ lk' = [lk EXCEPT ![EnqLock] =
                       [FreeLock EXCEPT !.alive = TRUE, !.req_mode = mode,
                                        !.type = type, !.refs = 1,
                                        !.flags = fl \cap {"NO_LRU", "EXCL"}]]
    /\ UNCHANGED <<lr_granted, lr_waiting, ns_unused_list>>
    /\ UNCHANGED cvars

\* ldlm_lock_create fails: ldlm_cli_enqueue returns PTR_ERR(lock), line 750
EnqueueCreateFails ==
    /\ enq.pc = "idle"
    /\ ~lk[EnqLock].alive
    /\ enq' = [enq EXCEPT !.pc = "done", !.op = "enqueue",
                          !.ret = "ENOMEM", !.fail_point = "create"]
    /\ UNCHANGED <<lk, lr_granted, lr_waiting, ns_unused_list>>
    /\ UNCHANGED cvars

\* lines 775-800: ldlm_enqueue_pack, or the caller's own request
EnqueuePackOk ==
    /\ enq.pc = "pack"
    /\ enq' = [enq EXCEPT !.pc = "rpc"]
    /\ UNCHANGED <<lk, lr_granted, lr_waiting, ns_unused_list>>
    /\ UNCHANGED cvars

\* lines 777-781: packing failed, failed_lock_cleanup and return the error
EnqueuePackFails ==
    /\ enq.pc = "pack"
    /\ ~enq.is_replay
    /\ enq' = [enq EXCEPT !.pc = "flc_stamp", !.flc_back = "pack",
                          !.rc = "ENOMEM", !.fail_point = "pack"]
    /\ UNCHANGED <<lk, lr_granted, lr_waiting, ns_unused_list>>
    /\ UNCHANGED cvars

\* line 809: ptlrpc_queue_wait returns; a replay is never answered with an
\* error (LASSERT(!is_replay), line 396)
EnqueueRpc ==
    /\ enq.pc = "rpc"
    /\ \E rc \in {"OK", "LOCK_ABORTED", "EIO"} :
          /\ enq.is_replay => rc = "OK"
          /\ enq' = [enq EXCEPT !.pc = "fini_entry", !.rc = rc]
    /\ UNCHANGED <<lk, lr_granted, lr_waiting, ns_unused_list>>
    /\ UNCHANGED cvars

(* ---------------------- ldlm_cli_enqueue_fini -------------------------- *)

\* lines 385-390: ldlm_handle2lock finds no lock (it is destroyed); only a
\* FLOCK lock can be gone here (LASSERT(type == LDLM_FLOCK))
FiniNoLock ==
    /\ enq.pc = "fini_entry"
    /\ ldlm_is_destroyed(EnqLock)
    /\ enq' = [enq EXCEPT !.pc = "enq_ret", !.fini_rc = "ENOLCK",
                          !.fail_point = "nolock"]
    /\ UNCHANGED <<lk, lr_granted, lr_waiting, ns_unused_list>>
    /\ UNCHANGED cvars

\* lines 395-402: the RPC failed with something else than LOCK_ABORTED
FiniRpcFailed ==
    /\ enq.pc = "fini_entry"
    /\ ~ldlm_is_destroyed(EnqLock)
    /\ enq.rc \notin {"OK", "LOCK_ABORTED"}
    /\ enq' = [enq EXCEPT !.pc = CleanupPc(enq.cleanup_phase, enq.rc),
                          !.flc_back = "fini", !.fail_point = "rpc"]
    /\ UNCHANGED <<lk, lr_granted, lr_waiting, ns_unused_list>>
    /\ UNCHANGED cvars

\* lines 405-409: the reply has no body
FiniNoReply ==
    /\ enq.pc = "fini_entry"
    /\ ~ldlm_is_destroyed(EnqLock)
    /\ enq.rc \in {"OK", "LOCK_ABORTED"}
    /\ enq' = [enq EXCEPT !.pc = CleanupPc(enq.cleanup_phase, "EPROTO"),
                          !.rc = "EPROTO", !.flc_back = "fini",
                          !.fail_point = "nobody"]
    /\ UNCHANGED <<lk, lr_granted, lr_waiting, ns_unused_list>>
    /\ UNCHANGED cvars

\* lines 411-426: the size of the replied LVB cannot be read (size < 0) or
\* is larger than the caller expected
FiniLvbSize ==
    /\ enq.pc = "fini_entry"
    /\ ~ldlm_is_destroyed(EnqLock)
    /\ enq.rc \in {"OK", "LOCK_ABORTED"}
    /\ enq.lvb_len > 0
    /\ \E size \in {-1, enq.lvb_len + 1} :
          enq' = [enq EXCEPT
                     !.rc = IF size < 0 THEN "EFAULT" ELSE "EINVAL",
                     !.pc = CleanupPc(enq.cleanup_phase, "EINVAL"),
                     !.flc_back = "fini", !.fail_point = "lvbsize"]
    /\ UNCHANGED <<lk, lr_granted, lr_waiting, ns_unused_list>>
    /\ UNCHANGED cvars

\* a variant of FiniAborted that does not put the status back after the
\* LVB was read (no "if (rc == 0) rc = ELDLM_LOCK_ABORTED", line 434)
FiniAborted_noreset ==
    /\ enq.pc = "fini_entry"
    /\ ~ldlm_is_destroyed(EnqLock)
    /\ enq.rc = "LOCK_ABORTED"
    /\ \E size \in 0..enq.lvb_len, fill_ok \in BOOLEAN :
          /\ (size = 0 \/ enq.lvb = "absent") => fill_ok
          /\ LET read == size > 0 /\ enq.lvb # "absent"
                 rc == IF ~read THEN "LOCK_ABORTED"
                       ELSE IF fill_ok THEN "OK" ELSE "EPROTO"
             IN  enq' = [enq EXCEPT
                            !.lvb_len = size,
                            !.lvb = IF read /\ fill_ok THEN "reply" ELSE @,
                            !.rc = rc,
                            !.pc = CleanupPc(enq.cleanup_phase, rc),
                            !.flc_back = "fini", !.fail_point = "aborted"]
    /\ UNCHANGED <<lk, lr_granted, lr_waiting, ns_unused_list>>
    /\ UNCHANGED cvars

\* lines 427-437: LOCK_ABORTED; the replied LVB goes to the caller's buffer
\* and the status is kept unless ldlm_fill_lvb fails
FiniAborted ==
    /\ enq.pc = "fini_entry"
    /\ ~ldlm_is_destroyed(EnqLock)
    /\ enq.rc = "LOCK_ABORTED"
    /\ \E size \in 0..enq.lvb_len, fill_ok \in BOOLEAN :
          /\ (size = 0 \/ enq.lvb = "absent") => fill_ok
          /\ enq' = [enq EXCEPT
                        !.lvb_len = size,
                        !.lvb = IF size > 0 /\ enq.lvb # "absent" /\ fill_ok
                                THEN "reply" ELSE @,
                        !.rc = IF fill_ok THEN "LOCK_ABORTED" ELSE "EPROTO",
                        !.pc = CleanupPc(enq.cleanup_phase, "LOCK_ABORTED"),
                        !.flc_back = "fini", !.fail_point = "aborted"]
    /\ UNCHANGED <<lk, lr_granted, lr_waiting, ns_unused_list>>
    /\ UNCHANGED cvars

\* lines 427-440: the reply is well-formed: "lock enqueued on the server"
FiniAccepted ==
    /\ enq.pc = "fini_entry"
    /\ ~ldlm_is_destroyed(EnqLock)
    /\ enq.rc = "OK"
    /\ \E size \in 0..enq.lvb_len :
          enq' = [enq EXCEPT !.lvb_len = size, !.cleanup_phase = 0,
                             !.pc = "fini_hash"]
    /\ UNCHANGED <<lk, lr_granted, lr_waiting, ns_unused_list>>
    /\ UNCHANGED cvars

\* lines 442-460, under the double lock: the remote handle, *flags and the
\* inherited flags; a replay reply never carries LOCK_CHANGED (line 472)
FiniHash ==
    /\ enq.pc = "fini_hash"
    /\ \E rf \in SUBSET ReplyFlagBits :
          /\ enq.is_replay => "LOCK_CHANGED" \notin rf
          /\ enq' = [enq EXCEPT !.pc = "fini_changed", !.flags = rf]
          /\ lk' = [lk EXCEPT ![EnqLock].remote = "reply",
                              ![EnqLock].flags =
                                  @ \cup (rf \cap LDLM_FL_INHERIT_MASK)]
    /\ UNCHANGED <<lr_granted, lr_waiting, ns_unused_list>>
    /\ UNCHANGED cvars

\* lines 469-505: the server rewrote the request (LOCK_CHANGED): a new
\* mode, and a new resource through ldlm_lock_change_resource
FiniChanged ==
    /\ enq.pc = "fini_changed"
    /\ "LOCK_CHANGED" \in enq.flags
    /\ \E newmode \in {"NONE"} \cup Modes, newres \in {"r0", "r1"} :
          /\ enq' = [enq EXCEPT !.pc = "fini_ast_sent"]
          /\ lk' = [lk EXCEPT
                       ![EnqLock].req_mode =
                           IF newmode # "NONE" /\ newmode # @
                           THEN newmode ELSE @,
                       ![EnqLock].res = newres]
    /\ UNCHANGED <<lr_granted, lr_waiting, ns_unused_list>>
    /\ UNCHANGED cvars

\* lines 486-491: ldlm_lock_change_resource fails; rc = -ENOMEM and
\* "goto cleanup" with cleanup_phase still 0
FiniChangeResourceFails ==
    /\ enq.pc = "fini_changed"
    /\ "LOCK_CHANGED" \in enq.flags
    /\ \E newmode \in {"NONE"} \cup Modes :
          /\ enq' = [enq EXCEPT
                        !.rc = "ENOMEM",
                        !.pc = CleanupPc(enq.cleanup_phase, "ENOMEM"),
                        !.flc_back = "fini", !.fail_point = "reschange"]
          /\ lk' = [lk EXCEPT
                       ![EnqLock].req_mode =
                           IF newmode # "NONE" /\ newmode # @
                           THEN newmode ELSE @]
    /\ UNCHANGED <<lr_granted, lr_waiting, ns_unused_list>>
    /\ UNCHANGED cvars

FiniNotChanged ==
    /\ enq.pc = "fini_changed"
    /\ "LOCK_CHANGED" \notin enq.flags
    /\ enq' = [enq EXCEPT !.pc = "fini_ast_sent"]
    /\ UNCHANGED <<lk, lr_granted, lr_waiting, ns_unused_list>>
    /\ UNCHANGED cvars

\* lines 507-512: a blocking notification is already on its way
FiniAstSent ==
    /\ enq.pc = "fini_ast_sent"
    /\ enq' = [enq EXCEPT !.pc = "fini_lvb"]
    /\ lk' = [lk EXCEPT ![EnqLock].flags =
                 IF "AST_SENT" \in enq.flags
                 THEN @ \cup {"CBPENDING", "BL_AST"} ELSE @]
    /\ UNCHANGED <<lr_granted, lr_waiting, ns_unused_list>>
    /\ UNCHANGED cvars

\* a variant of FiniLvb that fills the LVB of the lock without looking at
\* the granted mode
FiniLvb_nocheck ==
    /\ enq.pc = "fini_lvb"
    /\ \E fill_ok \in BOOLEAN :
          /\ enq.lvb_len = 0 => fill_ok
          /\ enq' = [enq EXCEPT
                        !.rc = IF fill_ok THEN @ ELSE "EPROTO",
                        !.cleanup_phase = IF fill_ok THEN @ ELSE 1,
                        !.fail_point = IF fill_ok THEN @ ELSE "lvbfill",
                        !.flc_back = "fini",
                        !.pc = IF fill_ok THEN "fini_enqueue"
                               ELSE "flc_stamp"]
          /\ lk' = [lk EXCEPT ![EnqLock].lvb =
                       IF enq.lvb_len > 0 /\ fill_ok THEN "reply" ELSE @]
    /\ UNCHANGED <<lr_granted, lr_waiting, ns_unused_list>>
    /\ UNCHANGED cvars

\* lines 517-532, one critical section: the replied LVB goes into the lock
\* unless the lock is already granted; a failing ldlm_fill_lvb ends the
\* enqueue with cleanup_phase = 1
FiniLvb ==
    /\ enq.pc = "fini_lvb"
    /\ \E fill_ok \in BOOLEAN :
          /\ (enq.lvb_len = 0
                \/ lk[EnqLock].req_mode = lk[EnqLock].granted_mode) => fill_ok
          /\ enq' = [enq EXCEPT
                        !.rc = IF fill_ok THEN @ ELSE "EPROTO",
                        !.cleanup_phase = IF fill_ok THEN @ ELSE 1,
                        !.fail_point = IF fill_ok THEN @ ELSE "lvbfill",
                        !.flc_back = "fini",
                        !.pc = IF fill_ok THEN "fini_enqueue"
                               ELSE "flc_stamp"]
          /\ lk' = [lk EXCEPT ![EnqLock].lvb =
                       IF /\ enq.lvb_len > 0
                          /\ lk[EnqLock].req_mode # lk[EnqLock].granted_mode
                          /\ fill_ok
                       THEN "reply" ELSE @]
    /\ UNCHANGED <<lr_granted, lr_waiting, ns_unused_list>>
    /\ UNCHANGED cvars

\* a variant of line 534 that loses the !is_replay test for the callback
FiniReplaySkips_calls ==
    /\ enq.pc = "fini_enqueue"
    /\ enq.is_replay
    /\ enq' = [enq EXCEPT !.pc = IF enq.cb = "none" THEN "fini_copy"
                                 ELSE "cp_entry"]
    /\ UNCHANGED <<lk, lr_granted, lr_waiting, ns_unused_list>>
    /\ UNCHANGED cvars

\* lines 534-535: a replay installs nothing and calls no callback
FiniReplaySkips ==
    /\ enq.pc = "fini_enqueue"
    /\ enq.is_replay
    /\ enq' = [enq EXCEPT !.pc = "fini_copy"]
    /\ UNCHANGED <<lk, lr_granted, lr_waiting, ns_unused_list>>
    /\ UNCHANGED cvars

\* line 535: rc = ldlm_lock_enqueue(ns, &lock, NULL, flags)
FiniLockEnqueue ==
    /\ enq.pc = "fini_enqueue"
    /\ ~enq.is_replay
    /\ ldlm_lock_enqueue(EnqLock, enq.flags)
    /\ enq' = [enq EXCEPT
                  !.flags = LockEnqueueFlags(EnqLock, enq.flags),
                  !.rc = "OK",
                  !.pc = IF enq.cb = "none" THEN "fini_copy" ELSE "cp_entry"]
    /\ UNCHANGED cvars

\* lines 539-542 of ldlm_cli_enqueue_fini for a callback that returned err:
\* if (!rc) rc = err; if (rc) cleanup_phase = 1
CpReturns(e, err) ==
    IF e.op = "wait"
    THEN [e EXCEPT !.pc = "done", !.err = err, !.ret = err]
    ELSE [e EXCEPT !.pc = "fini_copy", !.err = err,
                   !.rc = IF e.rc = "OK" THEN err ELSE e.rc,
                   !.cleanup_phase =
                       IF (IF e.rc = "OK" THEN err ELSE e.rc) # "OK"
                       THEN 1 ELSE e.cleanup_phase,
                   !.fail_point =
                       IF err # "OK" THEN "cp" ELSE e.fail_point]

\* a variant of ldlm_completion_tail that loses the destroyed/failed test
ldlm_completion_tail_unchecked(l) == "OK"

\* ldlm_completion_tail, lines 184-204
ldlm_completion_tail(l) ==
    IF ldlm_is_destroyed(l) \/ ldlm_is_failed(l) THEN "EIO" ELSE "OK"

\* ldlm_completion_ast_async, lines 211-226: never parks
ldlm_completion_ast_async(l, flags) ==
    IF flags = {"WAIT_NOREPROC"} THEN "OK"
    ELSE IF flags \cap LDLM_FL_BLOCKED_MASK = {}
         THEN ldlm_completion_tail(l)
         ELSE "OK"

CpAsync ==
    /\ enq.pc = "cp_entry"
    /\ enq.cb = "async"
    /\ enq' = CpReturns([enq EXCEPT !.cp_calls = @ + 1],
                        ldlm_completion_ast_async(EnqLock, enq.flags))
    /\ UNCHANGED <<lk, lr_granted, lr_waiting, ns_unused_list>>
    /\ UNCHANGED cvars

\* ldlm_completion_ast, lines 260-268: without a blocked flag the lock is
\* taken as granted: wake the waiters and return 0
CpSyncNotBlocked ==
    /\ enq.pc = "cp_entry"
    /\ enq.cb = "sync"
    /\ enq.flags # {"WAIT_NOREPROC"}
    /\ enq.flags \cap LDLM_FL_BLOCKED_MASK = {}
    /\ enq' = CpReturns([enq EXCEPT !.cp_calls = @ + 1], "OK")
    /\ UNCHANGED <<lk, lr_granted, lr_waiting, ns_unused_list>>
    /\ UNCHANGED cvars

\* ldlm_completion_ast, lines 260-299: a blocked lock, or WAIT_NOREPROC:
\* set the wait up and go to sleep
CpSyncPark ==
    /\ enq.pc = "cp_entry"
    /\ enq.cb = "sync"
    /\ \/ enq.flags = {"WAIT_NOREPROC"}
       \/ enq.flags \cap LDLM_FL_BLOCKED_MASK # {}
    /\ enq' = [enq EXCEPT !.pc = "cp_wait", !.cp_calls = @ + 1,
                          !.lwd_conn_cnt = imp.imp_conn_cnt]
    /\ UNCHANGED <<lk, lr_granted, lr_waiting, ns_unused_list>>
    /\ UNCHANGED cvars

\* a variant of the expiry that passes the import's current imp_conn_cnt
CpExpired_newcnt ==
    /\ enq.pc = "cp_wait"
    /\ ~enq.expired
    /\ "NO_TIMEOUT" \notin lk[EnqLock].flags
    /\ ~is_granted_or_cancelled(EnqLock)
    /\ enq' = [enq EXCEPT !.expired = TRUE]
    /\ imp' = [imp EXCEPT !.fail_calls = @ \cup {imp.imp_conn_cnt}]
    /\ UNCHANGED <<lk, lr_granted, lr_waiting, ns_unused_list, thr, now>>

\* a variant of the expiry that ends the wait with -ETIMEDOUT
CpExpired_returns ==
    /\ enq.pc = "cp_wait"
    /\ ~enq.expired
    /\ "NO_TIMEOUT" \notin lk[EnqLock].flags
    /\ ~is_granted_or_cancelled(EnqLock)
    /\ enq' = CpReturns([enq EXCEPT !.expired = TRUE], "ETIMEDOUT")
    /\ imp' = [imp EXCEPT !.fail_calls = @ \cup {enq.lwd_conn_cnt}]
    /\ UNCHANGED <<lk, lr_granted, lr_waiting, ns_unused_list, thr, now>>

\* lines 286-291 and ldlm_expired_completion_wait, lines 114-150: the
\* timeout of a lock without NO_TIMEOUT fires; a lock of this client has its
\* l_conn_export (line 768), so the import is failed with lwd_conn_cnt; the
\* callback returns 0 and the caller goes back to sleep
CpExpired ==
    /\ enq.pc = "cp_wait"
    /\ ~enq.expired
    /\ "NO_TIMEOUT" \notin lk[EnqLock].flags
    /\ ~is_granted_or_cancelled(EnqLock)
    /\ enq' = [enq EXCEPT !.expired = TRUE]
    /\ imp' = [imp EXCEPT !.fail_calls = @ \cup {enq.lwd_conn_cnt}]
    /\ UNCHANGED <<lk, lr_granted, lr_waiting, ns_unused_list, thr, now>>

\* the import connects again: imp_conn_cnt advances
Reconnect ==
    /\ imp.imp_conn_cnt < MaxConn
    /\ imp' = [imp EXCEPT !.imp_conn_cnt = @ + 1]
    /\ UNCHANGED <<lk, lr_granted, lr_waiting, ns_unused_list, enq, thr, now>>

\* a variant of the wait that ends with rc = 0 whatever the state of the lock
CpWake_spurious ==
    /\ enq.pc = "cp_wait"
    /\ enq' = [enq EXCEPT !.pc = "cp_tail"]
    /\ UNCHANGED <<lk, lr_granted, lr_waiting, ns_unused_list>>
    /\ UNCHANGED cvars

\* lines 306-309: l_wait_event sees is_granted_or_cancelled(lock), rc = 0
CpWake ==
    /\ enq.pc = "cp_wait"
    /\ is_granted_or_cancelled(EnqLock)
    /\ enq' = [enq EXCEPT !.pc = "cp_tail"]
    /\ UNCHANGED <<lk, lr_granted, lr_waiting, ns_unused_list>>
    /\ UNCHANGED cvars

\* lines 301-315: the wait is interrupted (or OBD_FAIL_LDLM_INTR_CP_AST
\* fires): rc = -EINTR is returned as it is
CpInterrupted ==
    /\ enq.pc = "cp_wait"
    /\ enq' = CpReturns(enq, "EINTR")
    /\ UNCHANGED <<lk, lr_granted, lr_waiting, ns_unused_list>>
    /\ UNCHANGED cvars

\* line 317: return ldlm_completion_tail(lock, data)
CpTail ==
    /\ enq.pc = "cp_tail"
    /\ enq' = CpReturns(enq, ldlm_completion_tail(EnqLock))
    /\ UNCHANGED <<lk, lr_granted, lr_waiting, ns_unused_list>>
    /\ UNCHANGED cvars

\* lines 546-556: the lock's LVB goes to the caller's buffer; then cleanup
FiniCopy ==
    /\ enq.pc = "fini_copy"
    /\ enq' = [enq EXCEPT
                  !.lvb = IF enq.lvb_len > 0 /\ enq.lvb # "absent"
                          THEN lk[EnqLock].lvb ELSE @,
                  !.flc_back = "fini",
                  !.pc = CleanupPc(enq.cleanup_phase, enq.rc)]
    /\ UNCHANGED <<lk, lr_granted, lr_waiting, ns_unused_list>>
    /\ UNCHANGED cvars

(* ------------------------- failed_lock_cleanup ------------------------- *)

\* lines 327-339, under the double lock: a lock that is neither granted nor
\* failed is stamped LOCAL_ONLY | FAILED | ATOMIC_CB | CBPENDING
FlcNeedCancel(l) ==
    /\ lk[l].req_mode # lk[l].granted_mode
    /\ ~ldlm_is_failed(l)

\* a variant of FlcStamp that stamps the lock whatever its state
FlcStamp_always ==
    /\ enq.pc = "flc_stamp"
    /\ enq' = [enq EXCEPT !.pc = "flc_release", !.flc_calls = @ + 1]
    /\ lk' = [lk EXCEPT ![EnqLock].flags = @ \cup FailedStamp]
    /\ UNCHANGED <<lr_granted, lr_waiting, ns_unused_list>>
    /\ UNCHANGED cvars

FlcStamp ==
    /\ enq.pc = "flc_stamp"
    /\ enq' = [enq EXCEPT !.pc = "flc_release", !.flc_calls = @ + 1]
    /\ lk' = [lk EXCEPT ![EnqLock].flags =
                 IF FlcNeedCancel(EnqLock) THEN @ \cup FailedStamp ELSE @]
    /\ UNCHANGED <<lr_granted, lr_waiting, ns_unused_list>>
    /\ UNCHANGED cvars

\* where failed_lock_cleanup returns to: ldlm_cli_enqueue (line 779) or
\* ldlm_cli_enqueue_fini (line 557)
FlcBack(e) ==
    IF e.flc_back = "pack"
    THEN [e EXCEPT !.pc = "done", !.ret = e.rc]
    ELSE [e EXCEPT !.pc = "fini_ret"]

\* lines 355-362: a FLOCK lock that is not destroyed yet is unlinked from
\* its resource and destroyed
FlcFlockDestroy ==
    /\ enq.pc = "flc_release"
    /\ lk[EnqLock].type = "FLOCK"
    /\ ~ldlm_is_destroyed(EnqLock)
    /\ FlockUnlinkAndDestroy(EnqLock)
    /\ enq' = FlcBack(enq)
    /\ UNCHANGED cvars

FlcFlockGone ==
    /\ enq.pc = "flc_release"
    /\ lk[EnqLock].type = "FLOCK"
    /\ ldlm_is_destroyed(EnqLock)
    /\ enq' = FlcBack(enq)
    /\ UNCHANGED <<lk, lr_granted, lr_waiting, ns_unused_list>>
    /\ UNCHANGED cvars

\* lines 363-365: any other lock only loses the caller's mode reference
FlcDecref ==
    /\ enq.pc = "flc_release"
    /\ lk[EnqLock].type # "FLOCK"
    /\ ldlm_lock_decref_internal(EnqLock)
    /\ enq' = FlcBack(enq)
    /\ UNCHANGED cvars

\* lines 557-560: ldlm_cli_enqueue_fini returns rc
FiniReturn ==
    /\ enq.pc = "fini_ret"
    /\ enq' = [enq EXCEPT !.pc = "enq_ret", !.fini_rc = enq.rc]
    /\ UNCHANGED <<lk, lr_granted, lr_waiting, ns_unused_list>>
    /\ UNCHANGED cvars

\* ldlm_cli_enqueue, lines 811-829: err = ldlm_cli_enqueue_fini(...);
\* -ENOLCK is swallowed and the RPC's status returned
EnqueueReturn ==
    /\ enq.pc = "enq_ret"
    /\ enq' = [enq EXCEPT
                  !.pc = "done",
                  !.ret = IF enq.fini_rc = "ENOLCK" THEN enq.rc
                          ELSE enq.fini_rc]
    /\ UNCHANGED <<lk, lr_granted, lr_waiting, ns_unused_list>>
    /\ UNCHANGED cvars

\* ldlm_completion_ast called as a wait primitive on a pending lock the
\* caller holds a reference on (flags == LDLM_FL_WAIT_NOREPROC, lines
\* 239-240 and 260-263)
WaitStart ==
    /\ enq.pc = "idle"
    /\ lk[EnqLock].alive
    /\ lk[EnqLock].refs > 0
    /\ enq' = [enq EXCEPT !.pc = "cp_entry", !.op = "wait", !.cb = "sync",
                          !.flags = {"WAIT_NOREPROC"}]
    /\ UNCHANGED <<lk, lr_granted, lr_waiting, ns_unused_list>>
    /\ UNCHANGED cvars

(* --------------- the other threads during an enqueue ------------------- *)

EnqInFlight == enq.pc \notin {"idle", "pack", "done"}

\* the server's completion notification (CP_CALLBACK) grants the lock and
\* installs its LVB; a destroyed or already granted lock is left alone, and
\* the server knows nothing of a lock whose request was never sent
CpCallback ==
    /\ EnqInFlight
    /\ enq.fail_point # "pack"
    /\ lk[EnqLock].alive
    /\ ~ldlm_is_destroyed(EnqLock)
    /\ lk[EnqLock].granted_mode # lk[EnqLock].req_mode
    /\ lk' = [lk EXCEPT ![EnqLock].granted_mode = lk[EnqLock].req_mode,
                        ![EnqLock].lvb = "cp"]
    /\ lr_granted' = lr_granted \cup {EnqLock}
    /\ lr_waiting' = lr_waiting \ {EnqLock}
    /\ UNCHANGED <<ns_unused_list, enq>>
    /\ UNCHANGED cvars

\* the server evicts the client: the lock is marked FAILED
Evict ==
    /\ EnqInFlight
    /\ lk[EnqLock].alive
    /\ ~ldlm_is_destroyed(EnqLock)
    /\ ~ldlm_is_failed(EnqLock)
    /\ lk' = [lk EXCEPT ![EnqLock].flags = @ \cup {"FAILED"}]
    /\ UNCHANGED <<lr_granted, lr_waiting, ns_unused_list, enq>>
    /\ UNCHANGED cvars

\* a competing path destroys a FLOCK lock (the only kind that can be gone
\* while its enqueue is in flight, line 388)
FlockDestroy ==
    /\ EnqInFlight
    /\ lk[EnqLock].alive
    /\ lk[EnqLock].type = "FLOCK"
    /\ ~ldlm_is_destroyed(EnqLock)
    /\ lk' = [lk EXCEPT ![EnqLock].flags = @ \cup {"DESTROYED"}]
    /\ lr_granted' = lr_granted \ {EnqLock}
    /\ lr_waiting' = lr_waiting \ {EnqLock}
    /\ UNCHANGED <<ns_unused_list, enq>>
    /\ UNCHANGED cvars

(* ------------------------ the enqueue specification -------------------- *)

\* a lock that exists before the call: granted and linked on lr_granted,
\* or blocked and linked on lr_waiting; its holder has a mode reference
HeldLock(type, mode, granted) ==
    [FreeLock EXCEPT !.alive = TRUE, !.type = type, !.req_mode = mode,
                     !.granted_mode = IF granted THEN mode ELSE "NONE",
                     !.refs = 1, !.remote = "h0"]

InitEnq ==
    /\ enq = EnqIdle
    /\ thr = [t \in Threads |-> ThreadIdle]
    /\ imp = ImportIdle
    /\ now = 1
    /\ ns_unused_list = <<>>
    /\ \/ /\ lk = [l \in Locks |-> FreeLock]
          /\ lr_granted = {}
          /\ lr_waiting = {}
       \/ \E type \in {"PLAIN", "FLOCK"}, mode \in Modes, g \in BOOLEAN :
             /\ lk = [l \in Locks |->
                         IF l = EnqLock THEN HeldLock(type, mode, g)
                         ELSE FreeLock]
             /\ lr_granted = IF g THEN {EnqLock} ELSE {}
             /\ lr_waiting = IF g THEN {} ELSE {EnqLock}

NextEnq ==
    \/ EnqueueStartReplay
    \/ EnqueueStartCreate
    \/ EnqueueCreateFails
    \/ EnqueuePackOk
    \/ EnqueuePackFails
    \/ EnqueueRpc
    \/ FiniNoLock
    \/ FiniRpcFailed
    \/ FiniNoReply
    \/ FiniLvbSize
    \/ FiniAborted
    \/ FiniAccepted
    \/ FiniHash
    \/ FiniChanged
    \/ FiniChangeResourceFails
    \/ FiniNotChanged
    \/ FiniAstSent
    \/ FiniLvb
    \/ FiniReplaySkips
    \/ FiniLockEnqueue
    \/ CpAsync
    \/ CpSyncNotBlocked
    \/ CpSyncPark
    \/ CpWake
    \/ CpInterrupted
    \/ CpTail
    \/ FiniCopy
    \/ FlcStamp
    \/ FlcFlockDestroy
    \/ FlcFlockGone
    \/ FlcDecref
    \/ FiniReturn
    \/ EnqueueReturn
    \/ WaitStart
    \/ CpCallback
    \/ Evict
    \/ FlockDestroy

SpecEnqueue == InitEnq /\ [][NextEnq]_vars

(* ======================================================================= *)
(*            the cancel pipeline, the LRU scan and lock replay            *)
(* ======================================================================= *)

\* thread t takes the record r
Upd(t, r) == thr' = [thr EXCEPT ![t] = r]

\* the sequence s without its first n elements
Drop(s, n) == IF n >= Len(s) THEN <<>> ELSE SubSeq(s, n + 1, Len(s))

\* the sequence s without the element at position i
DropAt(s, i) == SubSeq(s, 1, i - 1) \o Drop(s, i)

\* l_bl_ast is linked into some thread's cancel batch
OnBatch(l) ==
    \E t \in Threads : InSeq(thr[t].cancels, l) \/ InSeq(thr[t].head, l)

\* l_pending_chain is linked into the replay chain
OnChain(l) == \E t \in Threads : InSeq(thr[t].chain, l)

ldlm_is_canceling(l) == "CANCELING" \in lk[l].flags
ldlm_is_bl_ast(l) == "BL_AST" \in lk[l].flags
ldlm_is_bl_done(l) == "BL_DONE" \in lk[l].flags

exp_connect_cancelset == "CANCELSET" \in imp.connect
ns_connect_lru_resize == "LRU_RESIZE" \in imp.connect

\* ldlm_handle2lock(): NULL for a handle whose lock is being destroyed
ldlm_handle2lock(l) == IF ldlm_is_destroyed(l) THEN 0 ELSE l

\* ldlm_cancel_callback(): invoke the lock's cancel callback and record
\* that the cancel has been done (BL_DONE)
ldlm_cancel_callback(rec) == [rec EXCEPT !.flags = @ \cup {"BL_DONE"}]

\* ldlm_lock_cancel(): unlink the lock from its resource list and from the
\* LRU and destroy it
ldlm_lock_cancel(l) ==
    /\ lk' = [lk EXCEPT ![l].flags = @ \cup {"DESTROYED"}]
    /\ lr_granted' = lr_granted \ {l}
    /\ lr_waiting' = lr_waiting \ {l}
    /\ ns_unused_list' = SeqWithout(ns_unused_list, l)

\* a variant of ldlm_cli_cancel_local_rc that looks at BL_AST first
ldlm_cli_cancel_local_rc_blfirst(flags) ==
    IF "BL_AST" \in flags THEN "BL_AST"
    ELSE IF flags \cap {"LOCAL_ONLY", "CANCEL_ON_BLOCK"} # {}
    THEN "LOCAL_ONLY"
    ELSE "CANCELING"

\* a variant of ldlm_cli_cancel_local_rc that never reports LOCAL_ONLY
ldlm_cli_cancel_local_rc_nohint(flags) ==
    IF "BL_AST" \in flags THEN "BL_AST" ELSE "CANCELING"

\* the status ldlm_cli_cancel_local returns for a lock with these flags,
\* lines 851-861
ldlm_cli_cancel_local_rc(flags) ==
    IF flags \cap {"LOCAL_ONLY", "CANCEL_ON_BLOCK"} # {} THEN "LOCAL_ONLY"
    ELSE IF "BL_AST" \in flags THEN "BL_AST"
    ELSE "CANCELING"

\* threads are interchangeable: a thread enters the engine only after the
\* threads before it
MayStart(t) ==
    /\ thr[t].pc = "idle"
    /\ \A u \in Threads : u < t => thr[u].pc # "idle"

\* what a thread keeps of an operation that has returned
Finished(r, ret) ==
    [ThreadIdle EXCEPT !.pc = "done", !.op = r.op, !.lock = r.lock,
                       !.cflags = r.cflags, !.cancels = r.cancels,
                       !.head = r.head, !.chain = r.chain,
                       !.rpc_failed = r.rpc_failed, !.list_ret = r.list_ret,
                       !.was_canceling = r.was_canceling, !.cb = r.cb,
                       !.linked = r.linked, !.rpc_sent = r.rpc_sent,
                       !.sent = r.sent, !.avail = r.avail,
                       !.pack = r.pack, !.given = r.given,
                       !.args = r.args, !.ret = ret]

(* ------------- ldlm_cli_cancel_list and ldlm_cli_cancel_req ------------ *)

\* the batch ldlm_cli_cancel_list works on
Batch(r) == IF r.which = "head" THEN r.head ELSE r.cancels

\* a variant of ldlm_cli_cancel_list that hands the status of a failed
\* cancel RPC to its caller
ldlm_cli_cancel_list_ret_status(r) == IF r.rpc_failed THEN "EIO" ELSE "0"

\* the value ldlm_cli_cancel_list returns, lines 1648 and 1684
ldlm_cli_cancel_list_ret(r) == "0"

\* ldlm_cli_cancel_list(&cancels, count, NULL, flags) as the last call of
\* ldlm_cli_cancel (lines 1109-1110) and ldlm_cli_cancel_unused_resource
\* (lines 1716-1723): with nothing to send (lines 1647-1648) it returns at
\* once and the caller returns 0
CancelListOuter(r, count, flags) ==
    IF Len(r.cancels) = 0 \/ count = 0
    THEN Finished([r EXCEPT !.list_ret = ldlm_cli_cancel_list_ret(r)], "0")
    ELSE [r EXCEPT !.pc = "cl_loop", !.which = "cancels",
                   !.l_count = count, !.l_flags = flags, !.tries = 0,
                   !.cur = 0, !.back = "none", !.rc = "none",
                   !.c_count = 0, !.c_flags = {}, !.left = 0, !.pos = 1,
                   !.bl_ast = 0, !.added = 0, !.unused = 0,
                   !.remained = 0, !.s_count = 0, !.s_max = 0,
                   !.s_flags = {}, !.s_cflags = {}, !.last_use = 0]

\* ldlm_cli_cancel_list_local has returned c_count: ldlm_cli_cancel adds it
\* to count and sends the batch (lines 1106-1109),
\* ldlm_cli_cancel_unused_resource sends the batch (line 1716), the drain
\* before replay is over (lines 2055-2059)
AfterListLocal(r) ==
    IF r.op = "cancel"
    THEN CancelListOuter([r EXCEPT !.count = @ + r.c_count],
                         r.count + r.c_count, r.cflags)
    ELSE IF r.op = "res"
    THEN CancelListOuter([r EXCEPT !.count = r.c_count], r.c_count, r.cflags)
    ELSE IF r.op = "elc"
    THEN [r EXCEPT !.pc = "elc_pack", !.count = @ + r.c_count,
                   !.cur = 0, !.back = "none", !.rc = "none",
                   !.c_count = 0, !.c_flags = {}, !.left = 0, !.pos = 1,
                   !.bl_ast = 0, !.added = 0, !.unused = 0,
                   !.remained = 0, !.s_count = 0, !.s_max = 0,
                   !.s_flags = {}, !.s_cflags = {}, !.last_use = 0]
    ELSE [r EXCEPT !.pc = "rp_chain",
                   !.cur = 0, !.back = "none", !.rc = "none",
                   !.c_count = 0, !.c_flags = {}, !.left = 0, !.pos = 1,
                   !.bl_ast = 0, !.added = 0, !.unused = 0,
                   !.remained = 0, !.s_count = 0, !.s_max = 0,
                   !.s_flags = {}, !.s_cflags = {}, !.last_use = 0]

\* ldlm_cli_cancel_list_local, lines 1128-1129 and 1156-1161: the loop is
\* over; BL_AST locks go out in a batch of their own
ListLocalEnd(r) ==
    IF r.bl_ast > 0 /\ Len(r.head) > 0
    THEN [r EXCEPT !.pc = "cl_loop", !.which = "head",
                   !.c_count = @ - r.bl_ast, !.l_count = r.bl_ast,
                   !.l_flags = {}, !.tries = 0, !.cur = 0]
    ELSE AfterListLocal(r)

\* ldlm_cli_cancel_list_local, lines 1126-1129: the loop goes on with the
\* next lock of the batch or is over
ListLocalLoop(r) ==
    IF r.pos <= Len(r.cancels) /\ r.left # 0
    THEN [r EXCEPT !.pc = "cll_loop", !.cur = 0, !.back = "none"]
    ELSE ListLocalEnd(r)

\* ldlm_cli_cancel_list_local(cancels, count, flags), lines 1126-1129
ListLocalEnter(r, count, flags) ==
    ListLocalLoop([r EXCEPT !.c_count = count, !.c_flags = flags,
                            !.left = count, !.pos = 1, !.bl_ast = 0])

\* ldlm_prepare_lru_list, lines 1530-1531: return added; the thread keeps
\* the arguments of the call and the batch
PrepReturned(r) ==
    [Finished(r, "0") EXCEPT !.prep_ret = r.added, !.count = r.count,
                             !.s_max = r.s_max]

\* ldlm_prepare_lru_list returns added (lines 1530-1531) to its caller
\* (ldlm_cancel_lru then hands the batch to the blocking thread);
\* ldlm_cancel_lru_local, lines 1540-1543: nothing added, or on to
\* ldlm_cli_cancel_list_local(cancels, added, cancel_flags)
LruLocalReturn(r) ==
    IF r.op \in {"prep", "lru"} THEN PrepReturned(r)
    ELSE IF r.added <= 0
    THEN AfterListLocal([r EXCEPT !.c_count = r.added])
    ELSE ListLocalEnter(r, r.added, r.s_cflags)

\* ldlm_cli_cancel_list, lines 1680-1684: the loop is over and the call
\* returns, to ldlm_cli_cancel_list_local (lines 1158-1161) or to the caller
\* that returns 0 in turn
CancelListReturn(r) ==
    IF r.which = "head"
    THEN AfterListLocal([r EXCEPT !.which = "none", !.l_count = 0,
                                  !.l_flags = {},
                                  !.list_ret = ldlm_cli_cancel_list_ret(r)])
    ELSE Finished([r EXCEPT !.list_ret = ldlm_cli_cancel_list_ret(r)], "0")

\* what one attempt of ldlm_cli_cancel_req can meet: an invalid import, an
\* allocation or packing failure, and the statuses of ptlrpc_queue_wait
\* (ETIMEDOUT here is a timeout after which the import generation changed)
RpcOutcomes == {"INVALID", "ENOMEM", "OK", "ESTALE", "ETIMEDOUT",
                "ESHUTDOWN"}

\* the outcomes in which a request went out
RpcWentOut == {"OK", "ESTALE", "ETIMEDOUT", "ESHUTDOWN"}

\* lines 928-931: the number of handles one request takes
ReqCount(count) == IF count > HandlesAvail THEN HandlesAvail ELSE count

\* statuses above zero other than ESTALE that a reply to a cancel RPC can
\* carry, and their values
PositiveStatuses == {"STATUS_1", "ELDLM_LOCK_ABORTED"}

StatusValue(out) == IF out = "STATUS_1" THEN 1 ELSE 301

\* ldlm_cli_cancel_req, lines 933-994: its return value for an outcome that
\* ends the send loop, 'sent ? sent : rc' (line 994); -1 stands for an
\* error status below zero, a status above zero is returned as it is
ldlm_cli_cancel_req(count, flags, out) ==
    IF out = "INVALID" THEN ReqCount(count)
    ELSE IF out = "ENOMEM" THEN -1
    ELSE IF "LCF_ASYNC" \in flags THEN ReqCount(count)
    ELSE IF out \in {"OK", "ESTALE"} THEN ReqCount(count)
    ELSE IF out \in PositiveStatuses THEN StatusValue(out)
    ELSE -1

\* lines 1661-1678: the number of locks one round of ldlm_cli_cancel_list
\* takes off the batch
CancelListRes(count, flags, out) ==
    LET res == ldlm_cli_cancel_req(IF exp_connect_cancelset THEN count
                                   ELSE 1, flags, out)
    IN  IF res < 0 THEN count ELSE res

\* ldlm_cli_cancel_req, lines 977-980: re-send after a timeout on an
\* unchanged import generation
ClRetry(t) ==
    /\ thr[t].pc = "cl_loop"
    /\ Len(Batch(thr[t])) > 0
    /\ "LCF_ASYNC" \notin thr[t].l_flags
    /\ thr[t].tries < MaxRetry
    /\ Upd(t, [thr[t] EXCEPT !.tries = @ + 1, !.rpc_sent = TRUE])
    /\ UNCHANGED <<lk, lr_granted, lr_waiting, ns_unused_list, enq, imp, now>>

\* lines 1656-1684: one round of the loop of ldlm_cli_cancel_list; the
\* locks the round covers leave the batch whatever the RPC did
ClRoundOn(t, outs) ==
    /\ thr[t].pc = "cl_loop"
    /\ Len(Batch(thr[t])) > 0
    /\ \E out \in outs :
          LET res == CancelListRes(thr[t].l_count, thr[t].l_flags, out)
              failed == out \notin {"OK"} /\
                        ~("LCF_ASYNC" \in thr[t].l_flags
                          /\ out \in RpcWentOut)
              r1 == [thr[t] EXCEPT
                        !.l_count = @ - res,
                        !.rpc_sent = @ \/ out \in RpcWentOut
                                       \/ out \in PositiveStatuses,
                        !.rpc_failed = @ \/ failed,
                        !.tries = 0,
                        !.head = IF thr[t].which = "head"
                                 THEN Drop(@, res) ELSE @,
                        !.cancels = IF thr[t].which = "head"
                                    THEN @ ELSE Drop(@, res)]
          IN  Upd(t, IF r1.l_count > 0 THEN r1
                     ELSE IF r1.l_count < 0 THEN [r1 EXCEPT !.pc = "lbug"]
                     ELSE CancelListReturn(r1))
    /\ UNCHANGED <<lk, lr_granted, lr_waiting, ns_unused_list, enq, imp, now>>

\* one round with an invalid import, a failed allocation or one of the
\* statuses OK, ESTALE, timeout and shutdown
ClRound(t) == ClRoundOn(t, RpcOutcomes)

(* ------------------------ ldlm_cli_cancel_local ------------------------ *)

\* lines 849-861: under the lock set CBPENDING, run the cancel callback and
\* work out the status
CancelLocalSection(t, l, r) ==
    /\ lk' = [lk EXCEPT ![l] = ldlm_cancel_callback(
                                  [lk[l] EXCEPT !.flags = @ \cup {"CBPENDING"}])]
    /\ Upd(t, [r EXCEPT !.pc = "cl_cancel", !.cur = l,
                        !.rc = ldlm_cli_cancel_local_rc(lk[l].flags),
                        !.cb = @ \/ l = r.lock])

(* --------------------------- ldlm_cli_cancel --------------------------- *)

CancelFlags == SUBSET {"LCF_ASYNC", "LCF_LOCAL"}

\* the caller of ldlm_cli_cancel holds a handle of a lock without readers
\* and writers
CancelCallable(t, l) ==
    /\ MayStart(t)
    /\ lk[l].alive
    /\ lk[l].refs = 0

\* lines 1067-1071: the handle no longer resolves
CancelNoLock(t, l, cf) ==
    /\ CancelCallable(t, l)
    /\ ldlm_handle2lock(l) = 0
    /\ Upd(t, [thr[t] EXCEPT !.pc = "done", !.op = "cancel", !.lock = l,
                             !.cflags = cf, !.ret = "0",
                             !.was_canceling = ldlm_is_canceling(l)])
    /\ UNCHANGED <<lk, lr_granted, lr_waiting, ns_unused_list, enq, imp, now>>

\* a variant of the early return that does not look at LCF_ASYNC
CancelAlreadyCanceling_nowait(t, l, cf) ==
    /\ CancelCallable(t, l)
    /\ ldlm_handle2lock(l) # 0
    /\ ldlm_is_canceling(l)
    /\ Upd(t, [thr[t] EXCEPT !.pc = "done", !.op = "cancel", !.lock = l,
                             !.cflags = cf, !.ret = "0",
                             !.was_canceling = TRUE])
    /\ UNCHANGED <<lk, lr_granted, lr_waiting, ns_unused_list, enq, imp, now>>

\* lines 1073-1079: the lock is being cancelled and the caller does not wait
CancelAlreadyCanceling(t, l, cf) ==
    /\ CancelCallable(t, l)
    /\ ldlm_handle2lock(l) # 0
    /\ ldlm_is_canceling(l)
    /\ "LCF_ASYNC" \in cf
    /\ Upd(t, [thr[t] EXCEPT !.pc = "done", !.op = "cancel", !.lock = l,
                             !.cflags = cf, !.ret = "0",
                             !.was_canceling = TRUE])
    /\ UNCHANGED <<lk, lr_granted, lr_waiting, ns_unused_list, enq, imp, now>>

\* a variant of ldlm_cli_cancel without the early return of lines 1075-1079
CancelMark_again(t, l, cf) ==
    /\ CancelCallable(t, l)
    /\ ldlm_handle2lock(l) # 0
    /\ lk' = [lk EXCEPT ![l].flags = @ \cup {"CANCELING"}]
    /\ Upd(t, [thr[t] EXCEPT !.pc = "cl_flags", !.op = "cancel", !.lock = l,
                             !.cflags = cf, !.cur = l, !.back = "cancel",
                             !.was_canceling = ldlm_is_canceling(l)])
    /\ UNCHANGED <<lr_granted, lr_waiting, ns_unused_list, enq, imp, now>>

\* lines 1073-1084: mark the lock CANCELING and go on to cancel it locally
CancelMark(t, l, cf) ==
    /\ CancelCallable(t, l)
    /\ ldlm_handle2lock(l) # 0
    /\ ~(ldlm_is_canceling(l) /\ "LCF_ASYNC" \in cf)
    /\ lk' = [lk EXCEPT ![l].flags = @ \cup {"CANCELING"}]
    /\ Upd(t, [thr[t] EXCEPT !.pc = "cl_flags", !.op = "cancel", !.lock = l,
                             !.cflags = cf, !.cur = l, !.back = "cancel",
                             !.was_canceling = ldlm_is_canceling(l)])
    /\ UNCHANGED <<lr_granted, lr_waiting, ns_unused_list, enq, imp, now>>

\* line 1084: ldlm_cli_cancel_local(lock), its locked section
CancelLocalFlags(t) ==
    /\ thr[t].pc = "cl_flags"
    /\ CancelLocalSection(t, thr[t].cur, thr[t])
    /\ UNCHANGED <<lr_granted, lr_waiting, ns_unused_list, enq, imp, now>>

\* ldlm_cli_cancel_local, line 862, called from ldlm_cli_cancel:
\* ldlm_lock_cancel; then lines 1085-1088: with nothing to send return 0
CancelLocalCancel(t) ==
    /\ thr[t].pc = "cl_cancel"
    /\ thr[t].back = "cancel"
    /\ ldlm_lock_cancel(thr[t].cur)
    /\ Upd(t, IF thr[t].rc = "LOCAL_ONLY" \/ "LCF_LOCAL" \in thr[t].cflags
              THEN Finished(thr[t], "0")
              ELSE [thr[t] EXCEPT !.pc = "c_assert", !.cur = 0,
                                  !.back = "none"])
    /\ UNCHANGED <<enq, imp, now>>

\* line 1093: LASSERT(list_empty(&lock->l_bl_ast)); a failed assertion
\* stops the thread (LBUG)
CancelAssert(t) ==
    /\ thr[t].pc = "c_assert"
    /\ Upd(t, [thr[t] EXCEPT !.pc = IF OnBatch(thr[t].lock) THEN "lbug"
                                    ELSE "c_link"])
    /\ UNCHANGED <<lk, lr_granted, lr_waiting, ns_unused_list, enq, imp, now>>

\* lines 1094-1109: list_add(&lock->l_bl_ast, &cancels); with cancel-set
\* ldlm_cancel_lru_local takes LRU locks along, otherwise the one lock is
\* sent
CancelLink(t) ==
    /\ thr[t].pc = "c_link"
    /\ LET r == [thr[t] EXCEPT !.cancels = <<thr[t].lock>> \o @,
                               !.count = 1, !.linked = TRUE]
       IN  Upd(t, IF exp_connect_cancelset
                  THEN [r EXCEPT !.pc = "prep_enter",
                                 !.s_count = 0,
                                 !.s_max = HandlesAvail - 1,
                                 !.s_cflags = {"LCF_BL_AST"},
                                 !.s_flags = IF ns_connect_lru_resize
                                             THEN {"LRUR"} ELSE {"AGED"}]
                  ELSE CancelListOuter(r, 1, r.cflags))
    /\ UNCHANGED <<lk, lr_granted, lr_waiting, ns_unused_list, enq, imp, now>>

(* ----------------------------- LRU policies ---------------------------- *)

\* ldlm_cancel_passed_policy, lines 1256-1266
ldlm_cancel_passed_policy(added, count) ==
    IF added >= count THEN "KEEP" ELSE "CANCEL"

\* ldlm_cancel_default_policy, lines 1314-1323
ldlm_cancel_default_policy(added, count) ==
    IF added >= count THEN "KEEP" ELSE "CANCEL"

\* ldlm_cancel_aged_policy, lines 1277-1288
ldlm_cancel_aged_policy(last_used, added, count) ==
    IF added >= count /\ now < last_used + ns_max_age
    THEN "KEEP" ELSE "CANCEL"

\* a variant of ldlm_cancel_lrur_policy that stops at added >= count for a
\* count of 0 as well
ldlm_cancel_lrur_policy_nozero(slv, last_used, unused, added, count) ==
    IF added >= count THEN "KEEP"
    ELSE IF now > last_used + ns_max_age THEN "CANCEL"
    ELSE IF slv = 0 \/ ns_pool_lvf * (now - last_used) * unused < slv
         THEN "KEEP"
    ELSE "CANCEL"

\* ldlm_cancel_lrur_policy, lines 1206-1245
ldlm_cancel_lrur_policy(slv, last_used, unused, added, count) ==
    IF count # 0 /\ added >= count THEN "KEEP"
    ELSE IF now > last_used + ns_max_age THEN "CANCEL"
    ELSE IF slv = 0 \/ ns_pool_lvf * (now - last_used) * unused < slv
         THEN "KEEP"
    ELSE "CANCEL"

\* a variant of ldlm_cancel_no_wait_policy that asks the predicate for a
\* lock of any type
ldlm_cancel_no_wait_policy_anytype(type, pred) ==
    IF pred = "accept" THEN "CANCEL" ELSE "SKIP"

\* ldlm_cancel_no_wait_policy, lines 1169-1195; pred is the namespace's
\* ns_cancel predicate: absent ("none"), or what it answers for the lock
ldlm_cancel_no_wait_policy(type, pred) ==
    IF type \in {"EXTENT", "IBITS"} /\ pred = "accept"
    THEN "CANCEL" ELSE "SKIP"

\* ldlm_cancel_lrur_no_wait_policy, lines 1290-1303
ldlm_cancel_lrur_no_wait_policy(type, pred, slv, last_used, unused, added, count) ==
    IF ldlm_cancel_lrur_policy(slv, last_used, unused, added, count) = "KEEP"
    THEN "KEEP"
    ELSE ldlm_cancel_no_wait_policy(type, pred)

\* a variant of ldlm_cancel_lru_policy that looks at LRUR before SHRINK
ldlm_cancel_lru_policy_lrurfirst(flags) ==
    IF "NO_WAIT" \in flags THEN "no_wait"
    ELSE IF ns_connect_lru_resize
         THEN IF "LRUR" \in flags THEN "lrur"
              ELSE IF "SHRINK" \in flags THEN "passed"
              ELSE IF "PASSED" \in flags THEN "passed"
              ELSE IF "LRUR_NO_WAIT" \in flags THEN "lrur_no_wait"
              ELSE "default"
    ELSE IF "AGED" \in flags THEN "aged"
    ELSE "default"

\* ldlm_cancel_lru_policy, lines 1330-1352
ldlm_cancel_lru_policy(flags) ==
    IF "NO_WAIT" \in flags THEN "no_wait"
    ELSE IF ns_connect_lru_resize
         THEN IF "SHRINK" \in flags THEN "passed"
              ELSE IF "LRUR" \in flags THEN "lrur"
              ELSE IF "PASSED" \in flags THEN "passed"
              ELSE IF "LRUR_NO_WAIT" \in flags THEN "lrur_no_wait"
              ELSE "default"
    ELSE IF "AGED" \in flags THEN "aged"
    ELSE "default"

\* pf(ns, lock, unused, added, count), line 1462
PolicyResult(pf, l, r, slv, pred) ==
    CASE pf = "no_wait" -> ldlm_cancel_no_wait_policy(lk[l].type, pred)
      [] pf = "passed" -> ldlm_cancel_passed_policy(r.added, r.s_count)
      [] pf = "lrur" ->
            ldlm_cancel_lrur_policy(slv, lk[l].last_used, r.unused,
                                    r.added, r.s_count)
      [] pf = "lrur_no_wait" ->
            ldlm_cancel_lrur_no_wait_policy(lk[l].type, pred, slv,
                                            lk[l].last_used, r.unused,
                                            r.added, r.s_count)
      [] pf = "aged" ->
            ldlm_cancel_aged_policy(lk[l].last_used, r.added, r.s_count)
      [] OTHER -> ldlm_cancel_default_policy(r.added, r.s_count)

\* the policies that mark the lock SKIPPED when they answer SKIP
PolicyMarksSkipped(pf) == pf \in {"no_wait", "lrur_no_wait"}

(* ------------------------ ldlm_prepare_lru_list ------------------------ *)

NoWait(r) == r.s_flags \cap {"NO_WAIT", "LRUR_NO_WAIT"} # {}

\* lines 1425-1431: the scan passes over the lock without looking at it
ScanSkip(l, r) ==
    \/ NoWait(r) /\ "SKIPPED" \in lk[l].flags
    \/ lk[l].last_used = now

\* lines 1420-1440: positions of the locks the inner scan would stop at
ScanCand(r) ==
    {i \in 1..Len(ns_unused_list) :
        /\ ~ScanSkip(ns_unused_list[i], r)
        /\ ~ldlm_is_canceling(ns_unused_list[i])}

ScanFirst(r) ==
    IF ScanCand(r) = {} THEN Len(ns_unused_list) + 1
    ELSE CHOOSE i \in ScanCand(r) : \A j \in ScanCand(r) : i <= j

\* lines 1436-1439: the CANCELING locks the scan meets on its way are taken
\* off the LRU
ScanRemoved(r) ==
    {ns_unused_list[j] : j \in {i \in 1..Len(ns_unused_list) :
        /\ i < ScanFirst(r)
        /\ ~ScanSkip(ns_unused_list[i], r)
        /\ ldlm_is_canceling(ns_unused_list[i])}}

\* a variant of the scan that does not stop at max
ScanStep_unlimited(t, r) ==
    IF \/ Len(ns_unused_list) = 0
       \/ r.remained <= 0
    THEN /\ Upd(t, LruLocalReturn(r))
         /\ UNCHANGED ns_unused_list
    ELSE /\ ns_unused_list' =
                SelectSeq(ns_unused_list, LAMBDA x : x \notin ScanRemoved(r))
         /\ IF ScanFirst(r) > Len(ns_unused_list)
            THEN Upd(t, LruLocalReturn(r))
            ELSE Upd(t, [r EXCEPT
                     !.pc = "prep_policy",
                     !.cur = ns_unused_list[ScanFirst(r)],
                     !.last_use = lk[ns_unused_list[ScanFirst(r)]].last_used,
                     !.remained = @ - 1])

\* one round of the while loop under ns_lock, lines 1408-1447
ScanStep(t, r) ==
    IF \/ Len(ns_unused_list) = 0
       \/ r.remained <= 0
       \/ r.s_max # 0 /\ r.added >= r.s_max
    THEN /\ Upd(t, LruLocalReturn(r))
         /\ UNCHANGED ns_unused_list
    ELSE /\ ns_unused_list' =
                SelectSeq(ns_unused_list, LAMBDA x : x \notin ScanRemoved(r))
         /\ IF ScanFirst(r) > Len(ns_unused_list)
            THEN Upd(t, LruLocalReturn(r))
            ELSE Upd(t, [r EXCEPT
                     !.pc = "prep_policy",
                     !.cur = ns_unused_list[ScanFirst(r)],
                     !.last_use = lk[ns_unused_list[ScanFirst(r)]].last_used,
                     !.remained = @ - 1])

\* lines 1398-1447: entry and the first round of the scan
PrepEnter(t) ==
    /\ thr[t].pc = "prep_enter"
    /\ ScanStep(t, [thr[t] EXCEPT
                       !.unused = Len(ns_unused_list),
                       !.remained = Len(ns_unused_list),
                       !.added = 0,
                       !.s_count = IF ns_connect_lru_resize THEN @
                                   ELSE @ + Len(ns_unused_list)
                                          - ns_max_unused])
    /\ UNCHANGED <<lk, lr_granted, lr_waiting, enq, imp, now>>

\* lines 1408-1447: a later round of the scan
PrepScan(t) ==
    /\ thr[t].pc = "prep_scan"
    /\ ScanStep(t, thr[t])
    /\ UNCHANGED <<lk, lr_granted, lr_waiting, enq, imp, now>>

\* lines 1448-1476: the policy is asked with ns_lock released
PrepPolicy(t) ==
    /\ thr[t].pc = "prep_policy"
    /\ \E slv \in 0..MaxSlv, pred \in {"none", "refuse", "accept"} :
          LET l == thr[t].cur
              pf == ldlm_cancel_lru_policy(thr[t].s_flags)
              result == PolicyResult(pf, l, thr[t], slv, pred)
          IN  /\ lk' = IF result = "SKIP" /\ PolicyMarksSkipped(pf)
                       THEN [lk EXCEPT ![l].flags = @ \cup {"SKIPPED"}]
                       ELSE lk
              /\ Upd(t, IF result = "KEEP"
                         THEN LruLocalReturn([thr[t] EXCEPT !.cur = 0,
                                                            !.last_use = 0])
                         ELSE IF result = "SKIP"
                         THEN [thr[t] EXCEPT !.pc = "prep_scan", !.cur = 0,
                                             !.last_use = 0]
                         ELSE [thr[t] EXCEPT !.pc = "prep_recheck"])
    /\ UNCHANGED <<lr_granted, lr_waiting, ns_unused_list, enq, imp, now>>

\* a variant of the check that does not compare the last_used stamp
StillUnused_nostamp(l, last_use) == InSeq(ns_unused_list, l)

\* ldlm_lock_remove_from_lru_check(): the lock is still on the LRU with the
\* last_used stamp the scan saw
StillUnused(l, last_use) ==
    /\ InSeq(ns_unused_list, l)
    /\ lk[l].last_used = last_use

\* lines 1478-1495: under the double lock the lock turned out to be taken
PrepLost(t) ==
    /\ thr[t].pc = "prep_recheck"
    /\ ldlm_is_canceling(thr[t].cur) \/ ~StillUnused(thr[t].cur, thr[t].last_use)
    /\ Upd(t, [thr[t] EXCEPT !.pc = "prep_scan", !.cur = 0, !.last_use = 0])
    /\ UNCHANGED <<lk, lr_granted, lr_waiting, ns_unused_list, enq, imp, now>>

\* a variant of the scan that links the lock and leaves it on the LRU
PrepAdd_stays(t) ==
    /\ thr[t].pc = "prep_recheck"
    /\ ~ldlm_is_canceling(thr[t].cur)
    /\ StillUnused(thr[t].cur, thr[t].last_use)
    /\ LET l == thr[t].cur IN
          /\ lk' = [lk EXCEPT ![l].flags = (@ \ {"CANCEL_ON_BLOCK"})
                                            \cup {"CBPENDING", "CANCELING"}]
          /\ Upd(t, [thr[t] EXCEPT !.pc = "prep_scan",
                                   !.cancels = <<l>> \o @,
                                   !.added = @ + 1,
                                   !.unused = @ - 1,
                                   !.cur = 0, !.last_use = 0])
    /\ UNCHANGED <<lr_granted, lr_waiting, ns_unused_list, enq, imp, now>>

\* lines 1478-1528: take the lock off the LRU, mark it and link it into the
\* caller's batch
PrepAdd(t) ==
    /\ thr[t].pc = "prep_recheck"
    /\ ~ldlm_is_canceling(thr[t].cur)
    /\ StillUnused(thr[t].cur, thr[t].last_use)
    /\ LET l == thr[t].cur IN
          /\ ns_unused_list' = SeqWithout(ns_unused_list, l)
          /\ lk' = [lk EXCEPT ![l].flags = (@ \ {"CANCEL_ON_BLOCK"})
                                            \cup {"CBPENDING", "CANCELING"}]
          /\ IF OnBatch(l)
             THEN Upd(t, [thr[t] EXCEPT !.pc = "lbug"])
             ELSE Upd(t, [thr[t] EXCEPT !.pc = "prep_scan",
                                        !.cancels = <<l>> \o @,
                                        !.added = @ + 1,
                                        !.unused = @ - 1,
                                        !.cur = 0, !.last_use = 0])
    /\ UNCHANGED <<lr_granted, lr_waiting, enq, imp, now>>

(* ---------------------- ldlm_cli_cancel_list_local --------------------- *)

\* lines 1142-1154: a BL_AST lock moves to the separate batch, a lock that
\* needs no RPC leaves the batch, any other lock stays; then the loop goes on
ListLocalAfter(r) ==
    ListLocalLoop(
        IF "LCF_BL_AST" \notin r.c_flags /\ r.rc = "BL_AST"
        THEN [r EXCEPT !.cancels = DropAt(@, r.pos),
                       !.head = <<r.cur>> \o @,
                       !.bl_ast = @ + 1]
        ELSE IF r.rc = "LOCAL_ONLY"
        THEN [r EXCEPT !.cancels = DropAt(@, r.pos),
                       !.c_count = @ - 1]
        ELSE [r EXCEPT !.pos = @ + 1])

\* a variant of the LCF_LOCAL branch that takes its status from the flags
\* of the lock, as ldlm_cli_cancel_local does
CllNextLocal_byflags(t) ==
    /\ thr[t].pc = "cll_loop"
    /\ "LCF_LOCAL" \in thr[t].c_flags
    /\ ldlm_lock_cancel(thr[t].cancels[thr[t].pos])
    /\ Upd(t, ListLocalAfter([thr[t] EXCEPT
                                 !.left = @ - 1,
                                 !.cur = thr[t].cancels[thr[t].pos],
                                 !.rc = ldlm_cli_cancel_local_rc(
                                     lk[thr[t].cancels[thr[t].pos]].flags)]))
    /\ UNCHANGED <<enq, imp, now>>

\* lines 1127-1154 with LCF_LOCAL: the next lock of the batch is cancelled
\* on the spot and leaves the batch
CllNextLocal(t) ==
    /\ thr[t].pc = "cll_loop"
    /\ "LCF_LOCAL" \in thr[t].c_flags
    /\ ldlm_lock_cancel(thr[t].cancels[thr[t].pos])
    /\ Upd(t, ListLocalAfter([thr[t] EXCEPT
                                 !.left = @ - 1,
                                 !.cur = thr[t].cancels[thr[t].pos],
                                 !.rc = "LOCAL_ONLY"]))
    /\ UNCHANGED <<enq, imp, now>>

\* lines 1127-1136 without LCF_LOCAL: ldlm_cli_cancel_local runs on the
\* next lock of the batch, first its locked section
CllNextRemote(t) ==
    /\ thr[t].pc = "cll_loop"
    /\ "LCF_LOCAL" \notin thr[t].c_flags
    /\ CancelLocalSection(t, thr[t].cancels[thr[t].pos],
                          [thr[t] EXCEPT !.left = @ - 1, !.back = "cll"])
    /\ UNCHANGED <<lr_granted, lr_waiting, ns_unused_list, enq, imp, now>>

\* a variant of the loop whose local cancel leaves out ldlm_lock_cancel
CllCancel_skips(t) ==
    /\ thr[t].pc = "cl_cancel"
    /\ thr[t].back = "cll"
    /\ Upd(t, ListLocalAfter(thr[t]))
    /\ UNCHANGED <<lk, lr_granted, lr_waiting, ns_unused_list, enq, imp, now>>

\* ldlm_cli_cancel_local, line 862, called from the loop: ldlm_lock_cancel;
\* then lines 1142-1154
CllCancel(t) ==
    /\ thr[t].pc = "cl_cancel"
    /\ thr[t].back = "cll"
    /\ ldlm_lock_cancel(thr[t].cur)
    /\ Upd(t, ListLocalAfter(thr[t]))
    /\ UNCHANGED <<enq, imp, now>>

(* ------------------- ldlm_cli_cancel_unused_resource ------------------- *)

RECURSIVE SeqDesc(_)
\* the elements of a set of locks, largest first
SeqDesc(S) ==
    IF S = {} THEN <<>>
    ELSE LET m == CHOOSE x \in S : \A y \in S : y <= x
         IN  <<m>> \o SeqDesc(S \ {m})

\* ldlm_cancel_resource_local, lines 1588-1623, called with LCK_MINMODE and
\* no policy: the granted locks without readers and writers that nobody
\* cancels yet
ResPicks ==
    {l \in lr_granted :
        /\ lk[l].refs = 0
        /\ ~ldlm_is_bl_ast(l)
        /\ ~ldlm_is_canceling(l)}

\* a variant of ldlm_cancel_resource_local that links its picks without
\* marking them
ResScan_unmarked(t, cf) ==
    /\ MayStart(t)
    /\ Upd(t, ListLocalEnter([thr[t] EXCEPT
                                 !.op = "res", !.cflags = cf,
                                 !.cancels = SeqDesc(ResPicks),
                                 !.count = Cardinality(ResPicks)],
                             Cardinality(ResPicks),
                             cf \cup {"LCF_BL_AST"}))
    /\ UNCHANGED <<lk, lr_granted, lr_waiting, ns_unused_list, enq, imp, now>>

\* ldlm_cli_cancel_unused_resource, lines 1706-1715, with
\* ldlm_cancel_resource_local, lines 1587-1626: under the resource lock mark
\* and link every pick, then cancel the batch locally
ResScan(t, cf) ==
    /\ MayStart(t)
    /\ lk' = [l \in Locks |->
                 IF l \in ResPicks
                 THEN [lk[l] EXCEPT !.flags = @ \cup {"CBPENDING", "CANCELING"}]
                 ELSE lk[l]]
    /\ Upd(t, IF \E l \in ResPicks : OnBatch(l)
              THEN [thr[t] EXCEPT !.pc = "lbug", !.op = "res", !.cflags = cf]
              ELSE ListLocalEnter([thr[t] EXCEPT
                                      !.op = "res", !.cflags = cf,
                                      !.cancels = SeqDesc(ResPicks),
                                      !.count = Cardinality(ResPicks)],
                                  Cardinality(ResPicks),
                                  cf \cup {"LCF_BL_AST"}))
    /\ UNCHANGED <<lr_granted, lr_waiting, ns_unused_list, enq, imp, now>>

(* --------------------------- ldlm_replay_locks ------------------------- *)

\* replay runs once after a reconnect
NoReplayRunning ==
    /\ \A u \in Threads : thr[u].op # "replay"
    /\ imp.replay_inflight = 0
    /\ imp.queued = 0

\* lines 2069-2073: the import failed version-based recovery
ReplayVbrFailed(t) ==
    /\ MayStart(t)
    /\ NoReplayRunning
    /\ Upd(t, [thr[t] EXCEPT !.pc = "done", !.op = "replay", !.ret = "0"])
    /\ UNCHANGED <<lk, lr_granted, lr_waiting, ns_unused_list, enq, imp, now>>

\* a variant of the start that does not take the guard count
ReplayStart_unguarded(t, drain) ==
    /\ MayStart(t)
    /\ NoReplayRunning
    /\ Upd(t, IF drain
              THEN [thr[t] EXCEPT !.pc = "prep_enter", !.op = "replay",
                                  !.s_count = Len(ns_unused_list),
                                  !.s_max = 0,
                                  !.s_cflags = {"LCF_LOCAL"},
                                  !.s_flags = {"NO_WAIT"}]
              ELSE [thr[t] EXCEPT !.pc = "rp_chain", !.op = "replay"])
    /\ UNCHANGED <<lk, lr_granted, lr_waiting, ns_unused_list, enq, imp, now>>

\* lines 2076-2079 and 2042-2056: take the guard count; with
\* ldlm_cancel_unused_locks_before_replay drain the LRU first (policy
\* NO_WAIT, LCF_LOCAL)
ReplayStart(t, drain) ==
    /\ MayStart(t)
    /\ NoReplayRunning
    /\ imp' = [imp EXCEPT !.replay_inflight = @ + 1]
    /\ Upd(t, IF drain
              THEN [thr[t] EXCEPT !.pc = "prep_enter", !.op = "replay",
                                  !.s_count = Len(ns_unused_list),
                                  !.s_max = 0,
                                  !.s_cflags = {"LCF_LOCAL"},
                                  !.s_flags = {"NO_WAIT"}]
              ELSE [thr[t] EXCEPT !.pc = "rp_chain", !.op = "replay"])
    /\ UNCHANGED <<lk, lr_granted, lr_waiting, ns_unused_list, enq, now>>

\* ldlm_chain_lock_for_replay, lines 1875-1894: the locks the walk chains
ReplayPicks ==
    {l \in lr_granted \cup lr_waiting :
        lk[l].flags \cap {"FAILED", "BL_DONE"} = {}}

\* line 2081: ldlm_namespace_foreach(ns, ldlm_chain_lock_for_replay, &list)
ReplayChain(t) ==
    /\ thr[t].pc = "rp_chain"
    /\ Upd(t, IF \E l \in lr_granted \cup lr_waiting : OnChain(l)
              THEN [thr[t] EXCEPT !.pc = "lbug"]
              ELSE [thr[t] EXCEPT !.pc = "rp_loop", !.rc = "0",
                                  !.chain = SeqDesc(ReplayPicks)])
    /\ UNCHANGED <<lk, lr_granted, lr_waiting, ns_unused_list, enq, imp, now>>

\* a variant of the flags that knows no conversion
ReplayFlags_noconv(l) ==
    IF lk[l].granted_mode = lk[l].req_mode THEN {"REPLAY", "BLOCK_GRANTED"}
    ELSE IF l \in lr_granted \cup lr_waiting THEN {"REPLAY", "BLOCK_WAIT"}
    ELSE {"REPLAY"}

\* replay_one_lock, lines 1986-1993: the flags a lock is replayed with
ReplayFlags(l) ==
    IF lk[l].granted_mode = lk[l].req_mode THEN {"REPLAY", "BLOCK_GRANTED"}
    ELSE IF lk[l].granted_mode # "NONE" THEN {"REPLAY", "BLOCK_CONV"}
    ELSE IF l \in lr_granted \cup lr_waiting THEN {"REPLAY", "BLOCK_WAIT"}
    ELSE {"REPLAY"}

\* lines 2083-2088: after an error the rest of the chain is only released
ReplayRelease(t) ==
    /\ thr[t].pc = "rp_loop"
    /\ thr[t].chain # <<>>
    /\ thr[t].rc # "0"
    /\ Upd(t, [thr[t] EXCEPT !.chain = Tail(@)])
    /\ UNCHANGED <<lk, lr_granted, lr_waiting, ns_unused_list, enq, imp, now>>

\* lines 2083-2090 with replay_one_lock, lines 1957-1970: a lock whose
\* cancel is done is skipped, a CANCEL_ON_BLOCK lock is cancelled locally
ReplaySkip(t) ==
    /\ thr[t].pc = "rp_loop"
    /\ thr[t].chain # <<>>
    /\ thr[t].rc = "0"
    /\ LET l == Head(thr[t].chain) IN
          /\ ldlm_is_bl_done(l) \/ "CANCEL_ON_BLOCK" \in lk[l].flags
          /\ IF ldlm_is_bl_done(l)
             THEN UNCHANGED <<lk, lr_granted, lr_waiting, ns_unused_list>>
             ELSE ldlm_lock_cancel(l)
    /\ Upd(t, [thr[t] EXCEPT !.chain = Tail(@)])
    /\ UNCHANGED <<enq, imp, now>>

\* replay_one_lock, lines 1995-1998: no request could be allocated
ReplayNoMem(t) ==
    /\ thr[t].pc = "rp_loop"
    /\ thr[t].chain # <<>>
    /\ thr[t].rc = "0"
    /\ LET l == Head(thr[t].chain) IN
          ~(ldlm_is_bl_done(l) \/ "CANCEL_ON_BLOCK" \in lk[l].flags)
    /\ Upd(t, [thr[t] EXCEPT !.chain = Tail(@), !.rc = "ENOMEM"])
    /\ UNCHANGED <<lk, lr_granted, lr_waiting, ns_unused_list, enq, imp, now>>

\* replay_one_lock, lines 1986-2029: the replay request is queued
ReplaySend(t) ==
    /\ thr[t].pc = "rp_loop"
    /\ thr[t].chain # <<>>
    /\ thr[t].rc = "0"
    /\ LET l == Head(thr[t].chain) IN
          /\ ~(ldlm_is_bl_done(l) \/ "CANCEL_ON_BLOCK" \in lk[l].flags)
          /\ Upd(t, [thr[t] EXCEPT !.chain = Tail(@),
                                   !.sent = @ \cup {<<l, ReplayFlags(l)>>}])
    /\ imp' = [imp EXCEPT !.replay_inflight = @ + 1, !.queued = @ + 1]
    /\ UNCHANGED <<lk, lr_granted, lr_waiting, ns_unused_list, enq, now>>

\* lines 2093-2095: drop the guard count and return
ReplayDone(t) ==
    /\ thr[t].pc = "rp_loop"
    /\ thr[t].chain = <<>>
    /\ imp' = [imp EXCEPT !.replay_inflight = @ - 1]
    /\ Upd(t, Finished(thr[t], thr[t].rc))
    /\ UNCHANGED <<lk, lr_granted, lr_waiting, ns_unused_list, enq, now>>

\* a variant of the interpreter that leaves the counter alone
ReplayInterpret_keeps ==
    /\ imp.queued > 0
    /\ imp' = [imp EXCEPT !.queued = @ - 1]
    /\ UNCHANGED <<lk, lr_granted, lr_waiting, ns_unused_list, enq, thr, now>>

\* replay_lock_interpret, line 1904: a reply (or an error) came in
ReplayInterpret ==
    /\ imp.queued > 0
    /\ imp' = [imp EXCEPT !.replay_inflight = @ - 1, !.queued = @ - 1]
    /\ UNCHANGED <<lk, lr_granted, lr_waiting, ns_unused_list, enq, thr, now>>

(* ------------------------- ldlm_cli_update_pool ------------------------ *)

\* the SLV and limit a reply carries: zeroed out, or the pair of one
\* server-side pool state (slv and limit of state v are both v)
PoolReplies ==
    {<<s, l>> \in (0..MaxPoolVal) \X (0..MaxPoolVal) : s = 0 \/ l = 0 \/ s = l}

imp_connect_lru_resize == "LRU_RESIZE" \in imp.connect

\* lines 1011-1032: no import or no lru_resize, or a zero SLV or limit in
\* the reply: return 0 and touch nothing
PoolUpdateSkip(t, slv, limit) ==
    /\ thr[t].pc = "idle"
    /\ ~imp_connect_lru_resize \/ slv = 0 \/ limit = 0
    /\ Upd(t, [thr[t] EXCEPT !.pc = "done", !.op = "pool", !.ret = "0",
                             !.new_slv = slv, !.new_limit = limit])
    /\ UNCHANGED <<lk, lr_granted, lr_waiting, ns_unused_list, enq, imp, now>>

\* a variant of the update that stores without taking obd_pool_lock
PoolUpdateLock_unlocked(t, slv, limit) ==
    /\ thr[t].pc = "idle"
    /\ imp_connect_lru_resize
    /\ slv # 0
    /\ limit # 0
    /\ Upd(t, [thr[t] EXCEPT !.pc = "pool_slv", !.op = "pool",
                             !.new_slv = slv, !.new_limit = limit])
    /\ UNCHANGED <<lk, lr_granted, lr_waiting, ns_unused_list, enq, imp, now>>

\* lines 1034-1044: read the reply and take the write side of
\* obd_pool_lock
PoolUpdateLock(t, slv, limit) ==
    /\ thr[t].pc = "idle"
    /\ imp_connect_lru_resize
    /\ slv # 0
    /\ limit # 0
    /\ imp.pool_writer = 0
    /\ imp.pool_readers = 0
    /\ imp' = [imp EXCEPT !.pool_writer = t]
    /\ Upd(t, [thr[t] EXCEPT !.pc = "pool_slv", !.op = "pool",
                             !.new_slv = slv, !.new_limit = limit])
    /\ UNCHANGED <<lk, lr_granted, lr_waiting, ns_unused_list, enq, now>>

\* line 1045: obd->obd_pool_slv = new_slv
PoolStoreSlv(t) ==
    /\ thr[t].pc = "pool_slv"
    /\ imp' = [imp EXCEPT !.obd_pool_slv = thr[t].new_slv]
    /\ Upd(t, [thr[t] EXCEPT !.pc = "pool_limit"])
    /\ UNCHANGED <<lk, lr_granted, lr_waiting, ns_unused_list, enq, now>>

\* line 1046: obd->obd_pool_limit = new_limit; stored notes that the call
\* has stored both values of its reply
PoolStoreLimit(t) ==
    /\ thr[t].pc = "pool_limit"
    /\ imp' = [imp EXCEPT !.obd_pool_limit = thr[t].new_limit]
    /\ Upd(t, [thr[t] EXCEPT !.pc = "pool_unlock", !.stored = TRUE])
    /\ UNCHANGED <<lk, lr_granted, lr_waiting, ns_unused_list, enq, now>>

\* lines 1047-1049: write_unlock and return 0
PoolUnlock(t) ==
    /\ thr[t].pc = "pool_unlock"
    /\ imp' = [imp EXCEPT !.pool_writer = IF @ = t THEN 0 ELSE @]
    /\ Upd(t, [thr[t] EXCEPT !.pc = "done", !.ret = "0"])
    /\ UNCHANGED <<lk, lr_granted, lr_waiting, ns_unused_list, enq, now>>

\* a reader of the pool (the pool thread, debugfs) takes the read side of
\* obd_pool_lock
PoolReadLock(t) ==
    /\ thr[t].pc = "idle"
    /\ imp.pool_writer = 0
    /\ imp' = [imp EXCEPT !.pool_readers = @ + 1]
    /\ Upd(t, [thr[t] EXCEPT !.pc = "rd_slv", !.op = "poolread"])
    /\ UNCHANGED <<lk, lr_granted, lr_waiting, ns_unused_list, enq, now>>

\* the reader reads obd_pool_slv
PoolReadSlv(t) ==
    /\ thr[t].pc = "rd_slv"
    /\ Upd(t, [thr[t] EXCEPT !.pc = "rd_limit",
                             !.seen_slv = imp.obd_pool_slv])
    /\ UNCHANGED <<lk, lr_granted, lr_waiting, ns_unused_list, enq, imp, now>>

\* the reader reads obd_pool_limit
PoolReadLimit(t) ==
    /\ thr[t].pc = "rd_limit"
    /\ Upd(t, [thr[t] EXCEPT !.pc = "rd_unlock",
                             !.seen_limit = imp.obd_pool_limit])
    /\ UNCHANGED <<lk, lr_granted, lr_waiting, ns_unused_list, enq, imp, now>>

\* the reader releases the read side
PoolReadUnlock(t) ==
    /\ thr[t].pc = "rd_unlock"
    /\ imp' = [imp EXCEPT !.pool_readers = @ - 1]
    /\ Upd(t, [thr[t] EXCEPT !.pc = "done"])
    /\ UNCHANGED <<lk, lr_granted, lr_waiting, ns_unused_list, enq, now>>

\* the thread is free for the next reply or the next look at the pool
PoolAgain(t) ==
    /\ thr[t].pc = "done"
    /\ thr[t].op \in {"pool", "poolread"}
    /\ Upd(t, ThreadIdle)
    /\ UNCHANGED <<lk, lr_granted, lr_waiting, ns_unused_list, enq, imp, now>>

(* -------------- ldlm_prepare_lru_list called on its own ---------------- *)

\* the LDLM_LRU_FLAG_* values a caller passes
LruFlags == {{"LRUR"}, {"PASSED"}, {"SHRINK"}, {"AGED"}, {"NO_WAIT"},
             {"LRUR_NO_WAIT"}, {}}

\* ldlm_prepare_lru_list(ns, cancels, count, max, flags), lines 1388-1396,
\* with an empty batch
PrepCall(t, count, max, flags) ==
    /\ MayStart(t)
    /\ Upd(t, [thr[t] EXCEPT !.pc = "prep_enter", !.op = "prep",
                             !.count = count, !.s_count = count,
                             !.s_max = max, !.s_flags = flags])
    /\ UNCHANGED <<lk, lr_granted, lr_waiting, ns_unused_list, enq, imp, now>>

\* ldlm_cancel_lru(ns, nr, cancel_flags, flags), lines 1554-1565:
\* count = ldlm_prepare_lru_list(ns, &cancels, nr, 0, flags)
LruCancelCall(t, nr, flags) ==
    /\ thr[t].pc = "idle"
    /\ Upd(t, [thr[t] EXCEPT !.pc = "prep_enter", !.op = "lru",
                             !.count = nr, !.s_count = nr,
                             !.s_max = 0, !.s_flags = flags])
    /\ UNCHANGED <<lk, lr_granted, lr_waiting, ns_unused_list, enq, imp, now>>

(* ------------------------------ the clock ------------------------------ *)

Tick ==
    /\ now < MaxNow
    /\ now' = now + 1
    /\ UNCHANGED <<lk, lr_granted, lr_waiting, ns_unused_list, enq, thr, imp>>

(* --------------------------- initial states ---------------------------- *)

\* a granted lock of the client's cache without readers and writers
CachedLock(type, flags, last_used) ==
    [FreeLock EXCEPT !.alive = TRUE, !.type = type, !.req_mode = "PR",
                     !.granted_mode = "PR", !.flags = flags,
                     !.remote = "h0", !.last_used = last_used]

\* a lock a caller still waits for
WaitingLock ==
    [FreeLock EXCEPT !.alive = TRUE, !.type = "PLAIN", !.req_mode = "PW",
                     !.refs = 1, !.remote = "h0"]

\* the states lock l can start in: unused and on the LRU, perhaps
\* CANCEL_ON_BLOCK or used in the current tick; off the LRU with a blocking
\* callback pending; still waiting for its grant
LockChoices(l) ==
    IF l = 1 THEN {CachedLock("EXTENT", {}, 0),
                   CachedLock("EXTENT", {"CANCEL_ON_BLOCK"}, 0)}
    ELSE {CachedLock("PLAIN", {}, 0),
          CachedLock("PLAIN", {"BL_AST", "CBPENDING"}, 0),
          CachedLock("PLAIN", {}, 1),
          WaitingLock}

RECURSIVE SeqAsc(_)
\* the elements of a set of locks, smallest first
SeqAsc(S) ==
    IF S = {} THEN <<>>
    ELSE LET m == CHOOSE x \in S : \A y \in S : x <= y
         IN  <<m>> \o SeqAsc(S \ {m})

Init ==
    /\ enq = EnqIdle
    /\ thr = [t \in Threads |-> ThreadIdle]
    /\ now = 1
    /\ \E c \in {{"CANCELSET", "LRU_RESIZE"}, {"CANCELSET"}, {}} :
          imp = [ImportIdle EXCEPT !.connect = c]
    /\ lk \in [Locks -> UNION {LockChoices(l) : l \in Locks}]
    /\ \A l \in Locks : lk[l] \in LockChoices(l)
    /\ lr_granted = {l \in Locks : lk[l].granted_mode # "NONE"}
    /\ lr_waiting = {l \in Locks : lk[l].granted_mode = "NONE"}
    /\ ns_unused_list =
           SeqAsc({l \in Locks : lk[l].refs = 0 /\ lk[l].flags \cap
                       {"CBPENDING", "BL_AST", "NO_LRU"} = {}})

Next ==
    \/ \E t \in Threads, l \in Locks, cf \in CancelFlags :
          \/ CancelNoLock(t, l, cf)
          \/ CancelAlreadyCanceling(t, l, cf)
          \/ CancelMark(t, l, cf)
    \/ \E t \in Threads, cf \in CancelFlags : ResScan(t, cf)
    \/ \E t \in Threads, drain \in BOOLEAN : ReplayStart(t, drain)
    \/ \E t \in Threads :
          \/ CancelLocalFlags(t)
          \/ CancelLocalCancel(t)
          \/ CancelAssert(t)
          \/ CancelLink(t)
          \/ PrepEnter(t)
          \/ PrepScan(t)
          \/ PrepPolicy(t)
          \/ PrepLost(t)
          \/ PrepAdd(t)
          \/ CllNextLocal(t)
          \/ CllNextRemote(t)
          \/ CllCancel(t)
          \/ ClRetry(t)
          \/ ClRound(t)
          \/ ReplayVbrFailed(t)
          \/ ReplayChain(t)
          \/ ReplayRelease(t)
          \/ ReplaySkip(t)
          \/ ReplayNoMem(t)
          \/ ReplaySend(t)
          \/ ReplayDone(t)
    \/ ReplayInterpret
    \/ Tick

Spec == Init /\ [][Next]_vars

\* a thread that calls ldlm_prepare_lru_list with any target, any limit
\* and any policy while the other threads shrink the LRU through
\* ldlm_cancel_lru and the clock runs
NextLru ==
    \/ \E count \in 1..MaxTarget, max \in 0..MaxScan, flags \in LruFlags :
          PrepCall(1, count, max, flags)
    \/ \E t \in Threads \ {1}, nr \in 1..MaxTarget :
          LruCancelCall(t, nr, {"PASSED"})
    \/ \E t \in Threads :
          \/ PrepEnter(t)
          \/ PrepScan(t)
          \/ PrepPolicy(t)
          \/ PrepLost(t)
          \/ PrepAdd(t)
    \/ Tick

SpecLru == Init /\ [][NextLru]_vars

\* threads that handle replies through ldlm_cli_update_pool and threads
\* that read the pool
NextPool ==
    \/ \E t \in Threads, r \in PoolReplies :
          \/ PoolUpdateSkip(t, r[1], r[2])
          \/ PoolUpdateLock(t, r[1], r[2])
    \/ \E t \in Threads :
          \/ PoolStoreSlv(t)
          \/ PoolStoreLimit(t)
          \/ PoolUnlock(t)
          \/ PoolReadLock(t)
          \/ PoolReadSlv(t)
          \/ PoolReadLimit(t)
          \/ PoolReadUnlock(t)
          \/ PoolAgain(t)

SpecPool == Init /\ [][NextPool]_vars

\* the states of a lock replay_one_lock can be handed: any requested mode,
\* nothing or any mode granted, perhaps CANCEL_ON_BLOCK or with its cancel
\* done; the chain holds a reference
ReplayLockChoices ==
    {[FreeLock EXCEPT !.alive = TRUE, !.req_mode = r, !.granted_mode = g,
                      !.flags = f, !.refs = 1, !.remote = "h0"] :
        r \in Modes, g \in Modes \cup {"NONE"},
        f \in {{}, {"CANCEL_ON_BLOCK"}, {"BL_DONE"}}}

\* ldlm_replay_locks at the head of its loop (line 2083) with every lock on
\* its chain; a lock is linked on a list of its resource or (its enqueue
\* has no reply yet) on none
InitReplayOne ==
    /\ enq = EnqIdle
    /\ now = 1
    /\ imp = [ImportIdle EXCEPT !.replay_inflight = 1]
    /\ thr = [t \in Threads |->
                IF t = 1
                THEN [ThreadIdle EXCEPT !.pc = "rp_loop", !.op = "replay",
                                        !.rc = "0", !.chain = SeqDesc(Locks)]
                ELSE ThreadIdle]
    /\ lk \in [Locks -> ReplayLockChoices]
    /\ \E linked \in SUBSET Locks :
          /\ lr_granted = {l \in linked : lk[l].granted_mode # "NONE"}
          /\ lr_waiting = {l \in linked : lk[l].granted_mode = "NONE"}
    /\ ns_unused_list = <<>>

NextReplayOne ==
    \/ \E t \in Threads :
          \/ ReplayRelease(t)
          \/ ReplaySkip(t)
          \/ ReplayNoMem(t)
          \/ ReplaySend(t)
          \/ ReplayDone(t)
    \/ ReplayInterpret

SpecReplayOne == InitReplayOne /\ [][NextReplayOne]_vars

\* a blocking notification of the server reaches a granted lock: the lock
\* is marked CBPENDING | BL_AST, on the LRU or on a batch as it may be
BlockingAst(l) ==
    /\ lk[l].alive
    /\ l \in lr_granted
    /\ ~ldlm_is_bl_ast(l)
    /\ lk' = [lk EXCEPT ![l].flags = @ \cup {"CBPENDING", "BL_AST"}]
    /\ UNCHANGED <<lr_granted, lr_waiting, ns_unused_list, enq, thr, imp, now>>

\* ldlm_replay_locks up to the end of its LRU drain, while another thread
\* runs ldlm_cancel_lru and blocking notifications come in
NextDrain ==
    \/ \E t \in Threads : ReplayStart(t, TRUE)
    \/ \E t \in Threads \ {1}, nr \in 1..MaxTarget :
          LruCancelCall(t, nr, {"PASSED"})
    \/ \E t \in Threads :
          \/ PrepEnter(t)
          \/ PrepScan(t)
          \/ PrepPolicy(t)
          \/ PrepLost(t)
          \/ PrepAdd(t)
          \/ CllNextLocal(t)
    \/ \E l \in Locks : BlockingAst(l)

SpecDrain == Init /\ [][NextDrain]_vars

\* an enqueue is parked in ldlm_completion_ast (line 306) on lock EnqLock,
\* which the reply left blocked on lr_waiting; the other lock is cached,
\* perhaps CANCEL_ON_BLOCK
InitParked ==
    /\ \E m \in Modes :
          /\ enq = [EnqIdle EXCEPT !.pc = "cp_wait", !.op = "enqueue",
                                   !.cb = "sync", !.mode = m,
                                   !.flags = {"BLOCK_WAIT"},
                                   !.cleanup_phase = 0, !.flc_back = "fini",
                                   !.created = TRUE, !.cp_calls = 1,
                                   !.lwd_conn_cnt = 1]
          /\ \E f \in {{}, {"CANCEL_ON_BLOCK"}} :
                lk = [l \in Locks |->
                         IF l = EnqLock
                         THEN [HeldLock("PLAIN", m, FALSE)
                                  EXCEPT !.remote = "reply"]
                         ELSE CachedLock("PLAIN", f, 0)]
    /\ thr = [t \in Threads |-> ThreadIdle]
    /\ imp = ImportIdle
    /\ now = 1
    /\ lr_granted = Locks \ {EnqLock}
    /\ lr_waiting = {EnqLock}
    /\ ns_unused_list = SeqAsc(Locks \ {EnqLock})

\* the import reconnects and replays its locks while the enqueue is woken,
\* or is interrupted and cleans its lock up
NextReplayRace ==
    \/ CpWake
    \/ CpInterrupted
    \/ CpTail
    \/ FiniCopy
    \/ FlcStamp
    \/ FlcDecref
    \/ FiniReturn
    \/ EnqueueReturn
    \/ CpCallback
    \/ \E t \in Threads :
          \/ ReplayStart(t, FALSE)
          \/ ReplayChain(t)
          \/ ReplayRelease(t)
          \/ ReplaySkip(t)
          \/ ReplayNoMem(t)
          \/ ReplaySend(t)
          \/ ReplayDone(t)
    \/ ReplayInterpret

SpecReplayRace == InitParked /\ [][NextReplayRace]_vars

\* ldlm_cli_enqueue_fini has taken a reply that leaves the lock blocked on
\* lr_waiting, perhaps with NO_TIMEOUT, and is about to call the completion
\* AST (line 537)
InitReplied ==
    /\ \E m \in Modes, f \in {{}, {"NO_TIMEOUT"}} :
          /\ enq = [EnqIdle EXCEPT !.pc = "cp_entry", !.op = "enqueue",
                                   !.cb = "sync", !.mode = m,
                                   !.flags = {"BLOCK_WAIT"} \cup f,
                                   !.cleanup_phase = 0, !.flc_back = "fini",
                                   !.created = TRUE]
          /\ lk = [l \in Locks |->
                      IF l = EnqLock
                      THEN [HeldLock("PLAIN", m, FALSE)
                               EXCEPT !.remote = "reply", !.flags = f]
                      ELSE FreeLock]
    /\ thr = [t \in Threads |-> ThreadIdle]
    /\ imp = ImportIdle
    /\ now = 1
    /\ lr_granted = {}
    /\ lr_waiting = {EnqLock}
    /\ ns_unused_list = <<>>

\* the completion wait of the enqueue, with its timeout, the server's
\* notification, eviction and reconnects of the import
NextWait ==
    \/ CpSyncPark
    \/ CpExpired
    \/ Reconnect
    \/ CpWake
    \/ CpInterrupted
    \/ CpTail
    \/ FiniCopy
    \/ FlcStamp
    \/ FlcDecref
    \/ FiniReturn
    \/ EnqueueReturn
    \/ CpCallback
    \/ Evict

SpecWait == InitReplied /\ [][NextWait]_vars

(* ------------- cancelling a lock whose enqueue has failed --------------- *)

\* an enqueue that is about to fail, with threads that cancel locks around
\* it: either its reply has just arrived with the status LOCK_ABORTED (the
\* lock is created, referenced, and linked nowhere), or it is parked in
\* ldlm_completion_ast with its lock on the waiting list; the other lock
\* is unused and cached
InitFailing ==
    /\ \E m \in Modes, f \in {{}, {"CANCEL_ON_BLOCK"}}, parked \in BOOLEAN :
          /\ enq = IF parked
                   THEN [EnqIdle EXCEPT !.pc = "cp_wait", !.op = "enqueue",
                                        !.cb = "sync", !.mode = m,
                                        !.flags = {"BLOCK_WAIT"},
                                        !.cleanup_phase = 0,
                                        !.flc_back = "fini",
                                        !.created = TRUE, !.cp_calls = 1,
                                        !.lwd_conn_cnt = 1]
                   ELSE [EnqIdle EXCEPT !.pc = "fini_entry",
                                        !.op = "enqueue", !.mode = m,
                                        !.rc = "LOCK_ABORTED",
                                        !.lvb = "absent",
                                        !.cleanup_phase = 1,
                                        !.created = TRUE]
          /\ lk = [l \in Locks |->
                      IF l # EnqLock THEN CachedLock("PLAIN", f, 0)
                      ELSE IF parked
                      THEN [HeldLock("PLAIN", m, FALSE)
                               EXCEPT !.remote = "reply"]
                      ELSE [FreeLock EXCEPT !.alive = TRUE, !.req_mode = m,
                                            !.refs = 1]]
          /\ lr_waiting = IF parked THEN {EnqLock} ELSE {}
    /\ thr = [t \in Threads |-> ThreadIdle]
    /\ \E c \in {{"CANCELSET"}, {}} : imp = [ImportIdle EXCEPT !.connect = c]
    /\ now = 1
    /\ lr_granted = Locks \ {EnqLock}
    /\ ns_unused_list = SeqAsc(Locks \ {EnqLock})

\* the enqueue fails and cleans its lock up while the threads cancel single
\* locks and whole resources; the completion callback may still grant the
\* lock of the parked enqueue (a reply with the status LOCK_ABORTED means
\* that the server holds no lock, so no completion callback follows it)
NextFailedCancel ==
    \/ FiniAborted
    \/ CpWake
    \/ CpInterrupted
    \/ CpTail
    \/ FiniCopy
    \/ FlcStamp
    \/ FlcDecref
    \/ FiniReturn
    \/ EnqueueReturn
    \/ (enq.rc # "LOCK_ABORTED" /\ CpCallback)
    \/ \E t \in Threads, l \in Locks, cf \in CancelFlags :
          \/ CancelNoLock(t, l, cf)
          \/ CancelAlreadyCanceling(t, l, cf)
          \/ CancelMark(t, l, cf)
    \/ \E t \in Threads, cf \in CancelFlags : ResScan(t, cf)
    \/ \E t \in Threads :
          \/ CancelLocalFlags(t)
          \/ CancelLocalCancel(t)
          \/ CancelAssert(t)
          \/ CancelLink(t)
          \/ PrepEnter(t)
          \/ PrepScan(t)
          \/ PrepPolicy(t)
          \/ PrepLost(t)
          \/ PrepAdd(t)
          \/ CllNextLocal(t)
          \/ CllNextRemote(t)
          \/ CllCancel(t)
          \/ ClRetry(t)
          \/ ClRound(t)

SpecFailedCancel == InitFailing /\ [][NextFailedCancel]_vars

(* --------------------------- ldlm_prep_elc_req -------------------------- *)

\* a lock its holder has cancelled locally and keeps on a list of its own
CancelledLock ==
    CachedLock("PLAIN", {"CBPENDING", "CANCELING", "BL_DONE", "DESTROYED"}, 0)

\* the locks a caller can hand to ldlm_prep_elc_req
ElcGiven == {l \in Locks : lk[l] = CancelledLock /\ ~OnBatch(l)}

\* a variant of ElcCall that lets ldlm_cancel_lru_local take any number of
\* locks (max = 0)
ElcCall_unbounded(t, avail, given) ==
    /\ MayStart(t)
    /\ given \subseteq ElcGiven
    /\ LET r == [thr[t] EXCEPT !.op = "elc", !.avail = avail,
                               !.given = Cardinality(given),
                               !.count = Cardinality(given),
                               !.cancels = SeqDesc(given)]
       IN  Upd(t, IF exp_connect_cancelset /\ avail > r.count
                  THEN [r EXCEPT !.pc = "prep_enter",
                                 !.s_count = IF ns_connect_lru_resize
                                             THEN 0 ELSE 1,
                                 !.s_max = 0,
                                 !.s_cflags = {},
                                 !.s_flags = IF ns_connect_lru_resize
                                             THEN {"LRUR_NO_WAIT"}
                                             ELSE {"AGED"}]
                  ELSE [r EXCEPT !.pc = "elc_pack"])
    /\ UNCHANGED <<lk, lr_granted, lr_waiting, ns_unused_list, enq, imp, now>>

\* lines 610-641 of ldlm_prep_elc_req(exp, req, version, LDLM_ENQUEUE,
\* canceloff, cancels, count): avail is what ldlm_capsule_handles_avail
\* returns for the request (canceloff is subtracted in it, line 579), given
\* the list of the caller; on a connection with cancel sets and with
\* avail > count it calls ldlm_cancel_lru_local(ns, cancels, to_free,
\* avail - count, 0, flags)
ElcCall(t, avail, given) ==
    /\ MayStart(t)
    /\ given \subseteq ElcGiven
    /\ LET r == [thr[t] EXCEPT !.op = "elc", !.avail = avail,
                               !.given = Cardinality(given),
                               !.count = Cardinality(given),
                               !.cancels = SeqDesc(given)]
       IN  Upd(t, IF exp_connect_cancelset /\ avail > r.count
                  THEN [r EXCEPT !.pc = "prep_enter",
                                 !.s_count = IF ns_connect_lru_resize
                                             THEN 0 ELSE 1,
                                 !.s_max = avail - r.count,
                                 !.s_cflags = {},
                                 !.s_flags = IF ns_connect_lru_resize
                                             THEN {"LRUR_NO_WAIT"}
                                             ELSE {"AGED"}]
                  ELSE [r EXCEPT !.pc = "elc_pack"])
    /\ UNCHANGED <<lk, lr_granted, lr_waiting, ns_unused_list, enq, imp, now>>

\* a variant of ElcPackCount that packs every collected lock
ElcPackCount_all(r) == r.count

\* lines 636-639: pack
ElcPackCount(r) == IF r.avail > r.count THEN r.count ELSE r.avail

\* lines 636-672: pack is chosen; ptlrpc_request_pack fails and the list is
\* released (lines 646-648), or the first pack locks of the list go into
\* the request (ldlm_cli_cancel_list with req, lines 1658-1660 and 1677)
\* and ldlm_cli_cancel_list(cancels, count - pack, NULL, 0) sends the
\* others; without cancel sets the list is only released (line 670)
ElcPack(t) ==
    /\ thr[t].pc = "elc_pack"
    /\ \E ok \in BOOLEAN :
          LET r == thr[t]
              pack == IF exp_connect_cancelset THEN ElcPackCount(r) ELSE 0
          IN  Upd(t, IF ~ok
                     THEN Finished([r EXCEPT !.cancels = <<>>], "ENOMEM")
                     ELSE IF ~exp_connect_cancelset
                     THEN Finished([r EXCEPT !.cancels = <<>>], "0")
                     ELSE CancelListOuter([r EXCEPT !.pack = pack,
                                              !.cancels = Drop(@, pack)],
                                          r.count - pack, {}))
    /\ UNCHANGED <<lk, lr_granted, lr_waiting, ns_unused_list, enq, imp, now>>

\* unused locks on the LRU; the second lock, or both, may be on a list of a
\* caller
InitElc ==
    /\ enq = EnqIdle
    /\ thr = [t \in Threads |-> ThreadIdle]
    /\ now = 1
    /\ \E c \in {{"CANCELSET", "LRU_RESIZE"}, {"CANCELSET"}, {}} :
          imp = [ImportIdle EXCEPT !.connect = c]
    /\ \E u \in 0..1, held \in {{}, {2}, {1, 2}} :
          lk = [l \in Locks |-> IF l \in held THEN CancelledLock
                                ELSE CachedLock("PLAIN", {}, u)]
    /\ lr_granted = {l \in Locks : lk[l] # CancelledLock}
    /\ lr_waiting = {}
    /\ ns_unused_list = SeqAsc({l \in Locks : lk[l] # CancelledLock})

\* threads that prepare enqueue requests while the clock runs
NextElc ==
    \/ \E t \in Threads, avail \in 0..MaxAvail, given \in SUBSET Locks :
          ElcCall(t, avail, given)
    \/ \E t \in Threads :
          \/ ElcPack(t)
          \/ PrepEnter(t)
          \/ PrepScan(t)
          \/ PrepPolicy(t)
          \/ PrepLost(t)
          \/ PrepAdd(t)
          \/ CllNextRemote(t)
          \/ CllCancel(t)
          \/ ClRetry(t)
          \/ ClRound(t)
    \/ Tick

SpecElc == InitElc /\ [][NextElc]_vars

(* ---------------------------- lock discipline --------------------------- *)

\* the spinlocks: ns->ns_lock, the lock of the one resource, and the lock
\* of each lock object
NsLock == <<"ns", 0>>
ResLock == <<"res", 0>>
ObjLock(l) == <<"lock", l>>

Acq(x) == <<"acq", x>>
Rel(x) == <<"rel", x>>

\* lock_res_and_lock(lock) ... unlock_res_and_lock(lock): the resource lock
\* and the lock of the lock object, taken together, with the calls in
\* inner made while both are held
ResAndLock(l, inner) ==
    <<Acq(ResLock), Acq(ObjLock(l))>> \o inner
        \o <<Rel(ObjLock(l)), Rel(ResLock)>>

\* lock_res(res) ... unlock_res(res), lines 1587-1624 and 1789-1808
ResOnly == <<Acq(ResLock), Rel(ResLock)>>

\* ldlm_lock_remove_from_lru_check, called at line 1480 with the resource
\* and the lock object locked: it looks the lock up on the LRU and unlinks
\* it, and the LRU is protected by the namespace lock
RemoveFromLruCheck == <<Acq(NsLock), Rel(NsLock)>>

\* a variant of LruRound that keeps ns_lock while it calls the policy and
\* takes the resource and the lock object (no spin_unlock at line 1445)
LruRound_nsheld(l, kind) ==
    IF kind \in {"keep", "skip"} THEN <<>> ELSE ResAndLock(l, <<>>)

\* one round of the loop of ldlm_prepare_lru_list for lock l, from the
\* spin_unlock of line 1445 to the spin_lock that ends the round: the
\* policy keeps the lock (line 1467), skips it (line 1474; the no-wait
\* policy marks it under lock_res_and_lock, lines 1188-1190), or has it
\* cancelled (lines 1478-1526)
LruRound(l, kind) ==
    IF kind = "keep" THEN <<Rel(NsLock), Acq(NsLock)>>
    ELSE IF kind = "skip" THEN <<Rel(NsLock), Acq(NsLock)>>
    ELSE IF kind = "skip_nowait"
    THEN <<Rel(NsLock)>> \o ResAndLock(l, <<>>) \o <<Acq(NsLock)>>
    ELSE <<Rel(NsLock)>> \o ResAndLock(l, RemoveFromLruCheck)
             \o <<Acq(NsLock)>>

RoundKinds == {"keep", "skip", "skip_nowait", "cancel"}

\* the rounds of one call of ldlm_prepare_lru_list, at most n of them; a
\* round that keeps its lock is the last one (break, line 1468)
RECURSIVE LruRounds(_)
LruRounds(n) ==
    IF n = 0 THEN {<<>>}
    ELSE {<<>>}
         \cup {LruRound(l, "keep") : l \in Locks}
         \cup {LruRound(l, k) \o rest :
                  l \in Locks, k \in RoundKinds \ {"keep"},
                  rest \in LruRounds(n - 1)}

\* ldlm_prepare_lru_list, lines 1398-1531
LruPaths == {<<Acq(NsLock)>> \o r \o <<Rel(NsLock)>> : r \in LruRounds(MaxRounds)}

\* the critical sections of the other functions: failed_lock_cleanup
\* (lines 327-339, and 356-362 for a FLOCK lock), ldlm_cli_enqueue_fini
\* (lines 442-460, 508-510, 523-527), ldlm_cli_cancel_local (lines
\* 849-855), ldlm_cli_cancel (lines 1073-1082), and the walks of a resource
\* under lock_res
SectionPaths ==
    {ResAndLock(l, <<>>) : l \in Locks}
    \cup {ResAndLock(l, <<>>) \o ResAndLock(l, <<>>) : l \in Locks}
    \cup {ResOnly}

LockPaths == LruPaths \cup SectionPaths

\* x is held by a thread other than t
HeldByOther(t, x) ==
    \E u \in Threads \ {t} : InSeq(thr[u].holds, x)

\* a thread enters one of the functions
LockStart(t, p) ==
    /\ MayStart(t)
    /\ p \in LockPaths
    /\ Upd(t, [thr[t] EXCEPT !.pc = "locks", !.op = "locks", !.path = p])
    /\ UNCHANGED <<lk, lr_granted, lr_waiting, ns_unused_list, enq, imp, now>>

\* spin_lock: the thread goes on once nobody holds the lock
LockAcquire(t) ==
    /\ thr[t].pc = "locks"
    /\ thr[t].path # <<>>
    /\ Head(thr[t].path)[1] = "acq"
    /\ ~HeldByOther(t, Head(thr[t].path)[2])
    /\ ~InSeq(thr[t].holds, Head(thr[t].path)[2])
    /\ Upd(t, [thr[t] EXCEPT !.holds = Append(@, Head(thr[t].path)[2]),
                             !.path = Tail(@)])
    /\ UNCHANGED <<lk, lr_granted, lr_waiting, ns_unused_list, enq, imp, now>>

\* spin_unlock
LockRelease(t) ==
    /\ thr[t].pc = "locks"
    /\ thr[t].path # <<>>
    /\ Head(thr[t].path)[1] = "rel"
    /\ Upd(t, [thr[t] EXCEPT
                  !.holds = SeqWithout(@, Head(thr[t].path)[2]),
                  !.path = Tail(@)])
    /\ UNCHANGED <<lk, lr_granted, lr_waiting, ns_unused_list, enq, imp, now>>

\* the function returns
LockReturn(t) ==
    /\ thr[t].pc = "locks"
    /\ thr[t].path = <<>>
    /\ Upd(t, Finished(thr[t], "0"))
    /\ UNCHANGED <<lk, lr_granted, lr_waiting, ns_unused_list, enq, imp, now>>

\* two unused locks on the LRU
InitLocks ==
    /\ enq = EnqIdle
    /\ thr = [t \in Threads |-> ThreadIdle]
    /\ now = 1
    /\ imp = ImportIdle
    /\ lk = [l \in Locks |-> CachedLock("PLAIN", {}, 0)]
    /\ lr_granted = Locks
    /\ lr_waiting = {}
    /\ ns_unused_list = SeqAsc(Locks)

NextLocks ==
    \/ \E t \in Threads, p \in LockPaths : LockStart(t, p)
    \/ \E t \in Threads :
          \/ LockAcquire(t)
          \/ LockRelease(t)
          \/ LockReturn(t)

SpecLocks == InitLocks /\ [][NextLocks]_vars

(* --------------- cancels that race with blocking callbacks -------------- *)

\* threads that cancel single locks and whole resources while blocking
\* callbacks arrive for granted locks
NextCancelLocal ==
    \/ \E t \in Threads, l \in Locks, cf \in CancelFlags :
          \/ CancelNoLock(t, l, cf)
          \/ CancelAlreadyCanceling(t, l, cf)
          \/ CancelMark(t, l, cf)
    \/ \E t \in Threads, cf \in CancelFlags : ResScan(t, cf)
    \/ \E t \in Threads :
          \/ CancelLocalFlags(t)
          \/ CancelLocalCancel(t)
          \/ CancelAssert(t)
          \/ CancelLink(t)
          \/ PrepEnter(t)
          \/ PrepScan(t)
          \/ PrepPolicy(t)
          \/ PrepLost(t)
          \/ PrepAdd(t)
          \/ CllNextLocal(t)
          \/ CllNextRemote(t)
          \/ CllCancel(t)
          \/ ClRetry(t)
          \/ ClRound(t)
    \/ \E l \in Locks : BlockingAst(l)

SpecCancelLocal == Init /\ [][NextCancelLocal]_vars

(* ------------------ the send loop of ldlm_cli_cancel_req ---------------- *)

\* the statuses ptlrpc_queue_wait returns for a cancel request
ReplyStatuses == {"OK", "ESTALE", "ETIMEDOUT", "ESHUTDOWN"}

\* ldlm_cli_cancel_req(exp, cancels, count, flags), lines 919-931: count is
\* cut to the handles one request takes
CancelReqCall(t, count, flags) ==
    /\ MayStart(t)
    /\ Upd(t, [thr[t] EXCEPT !.pc = "cr_top", !.op = "req",
                             !.l_count = ReqCount(count),
                             !.l_flags = flags, !.tries = 0])
    /\ UNCHANGED <<lk, lr_granted, lr_waiting, ns_unused_list, enq, imp, now>>

\* the head of the loop, lines 933-971: an invalid import ends the call
\* with count; a failed allocation or packing ends it with the error; an
\* asynchronous request is handed to ptlrpcd and the call returns count;
\* otherwise the request is sent and the thread waits in
\* ptlrpc_queue_wait, the request carrying the generation of the import
CancelReqTopOn(t, n) ==
    /\ thr[t].pc = "cr_top"
    /\ \E alloc_ok \in BOOLEAN :
          Upd(t, IF imp.imp_invalid
                 THEN [thr[t] EXCEPT !.pc = "done", !.ret = "count"]
                 ELSE IF ~alloc_ok
                 THEN [thr[t] EXCEPT !.pc = "done", !.rc = "ENOMEM",
                                     !.ret = "ENOMEM"]
                 ELSE IF "LCF_ASYNC" \in thr[t].l_flags
                 THEN [thr[t] EXCEPT !.pc = "done", !.tries = n,
                                     !.rpc_sent = TRUE, !.ret = "count"]
                 ELSE [thr[t] EXCEPT !.pc = "cr_wait", !.tries = n,
                                     !.rpc_sent = TRUE,
                                     !.rq_gen = imp.imp_generation])
    /\ UNCHANGED <<lk, lr_granted, lr_waiting, ns_unused_list, enq, imp, now>>

\* the head of the loop with every attempt counted
CancelReqTop(t) == CancelReqTopOn(t, thr[t].tries + 1)

\* a variant of CancelReqReply that sends again after every timeout
CancelReqReply_nogen(t) ==
    /\ thr[t].pc = "cr_wait"
    /\ \E out \in ReplyStatuses :
          /\ out = "ETIMEDOUT" => thr[t].tries < MaxAttempts
          /\ Upd(t, IF out = "ETIMEDOUT"
                    THEN [thr[t] EXCEPT !.pc = "cr_top", !.rc = out]
                    ELSE [thr[t] EXCEPT
                             !.pc = "done", !.rc = out,
                             !.ret = IF out \in {"OK", "ESTALE"}
                                     THEN "count" ELSE out])
    /\ UNCHANGED <<lk, lr_granted, lr_waiting, ns_unused_list, enq, imp, now>>

\* ptlrpc_queue_wait returns, lines 973-991: ESTALE counts as success; a
\* timeout with the generation of the import unchanged goes back to the
\* head of the loop; any other error ends the loop with that error; OK
\* ends it with count
CancelReqReply(t) ==
    /\ thr[t].pc = "cr_wait"
    /\ \E out \in ReplyStatuses :
          /\ (out = "ETIMEDOUT" /\ thr[t].rq_gen = imp.imp_generation)
                => thr[t].tries < MaxAttempts
          /\ Upd(t, IF out = "ETIMEDOUT"
                       /\ thr[t].rq_gen = imp.imp_generation
                    THEN [thr[t] EXCEPT !.pc = "cr_top", !.rc = out]
                    ELSE [thr[t] EXCEPT
                             !.pc = "done", !.rc = out,
                             !.ret = IF out \in {"OK", "ESTALE"}
                                     THEN "count" ELSE out])
    /\ UNCHANGED <<lk, lr_granted, lr_waiting, ns_unused_list, enq, imp, now>>

\* the import is invalidated (an eviction or a failed reconnect): it is
\* marked invalid and its generation advances
ImportInvalidate ==
    /\ ~imp.imp_invalid
    /\ imp.imp_generation < MaxGen
    /\ imp' = [imp EXCEPT !.imp_invalid = TRUE, !.imp_generation = @ + 1]
    /\ UNCHANGED <<lk, lr_granted, lr_waiting, ns_unused_list, enq, thr, now>>

\* the import is connected again
ImportActivate ==
    /\ imp.imp_invalid
    /\ imp' = [imp EXCEPT !.imp_invalid = FALSE]
    /\ UNCHANGED <<lk, lr_granted, lr_waiting, ns_unused_list, enq, thr, now>>

\* threads that send cancel requests while the import is invalidated and
\* connected again
NextCancelReq ==
    \/ \E t \in Threads, count \in 1..(HandlesAvail + 1), flags \in {{}, {"LCF_ASYNC"}} :
          CancelReqCall(t, count, flags)
    \/ \E t \in Threads :
          \/ CancelReqTop(t)
          \/ CancelReqReply(t)
    \/ ImportInvalidate
    \/ ImportActivate

SpecCancelReq == InitLocks /\ [][NextCancelReq]_vars

(* ------------------- the LRU policies called on their own -------------- *)

\* the LDLM_LRU_FLAG_* bits
LruFlagBits == {"AGED", "PASSED", "SHRINK", "LRUR", "NO_WAIT", "LRUR_NO_WAIT"}

\* the policies are functions of their arguments: one call at a time
AloneStart(t) ==
    /\ MayStart(t)
    /\ \A u \in Threads \ {t} : thr[u].pc = "idle"

\* ldlm_cancel_lru_policy(ns, flags), lines 1330-1352, for any flags value;
\* the thread keeps the flags and the policy it got
PolicyCall(t, flags) ==
    /\ AloneStart(t)
    /\ Upd(t, [thr[t] EXCEPT !.pc = "done", !.op = "policy",
                             !.s_flags = flags,
                             !.ret = ldlm_cancel_lru_policy(flags)])
    /\ UNCHANGED <<lk, lr_granted, lr_waiting, ns_unused_list, enq, imp, now>>

\* ldlm_cancel_lrur_policy(ns, lock, unused, added, count), lines 1206-1245,
\* with the server lock volume slv of the pool; the thread keeps the
\* arguments and the answer
LrurCall(t, l, slv, unused, added, count) ==
    /\ AloneStart(t)
    /\ Upd(t, [thr[t] EXCEPT !.pc = "done", !.op = "lrur",
                             !.cur = l, !.seen_slv = slv,
                             !.unused = unused, !.added = added,
                             !.s_count = count,
                             !.last_use = now,
                             !.ret = ldlm_cancel_lrur_policy(
                                        slv, lk[l].last_used, unused,
                                        added, count)])
    /\ UNCHANGED <<lk, lr_granted, lr_waiting, ns_unused_list, enq, imp, now>>

\* ldlm_cancel_no_wait_policy(ns, lock, unused, added, count), lines
\* 1169-1195, for a lock of the LRU: pred is what ns_cancel answers, or
\* "none" without a predicate; on SKIP the lock is marked SKIPPED (lines
\* 1187-1190); the thread keeps the lock, pred and the answer
NoWaitCall(t, l, pred) ==
    /\ AloneStart(t)
    /\ InSeq(ns_unused_list, l)
    /\ LET result == ldlm_cancel_no_wait_policy(lk[l].type, pred)
       IN  /\ lk' = IF result = "SKIP"
                    THEN [lk EXCEPT ![l].flags = @ \cup {"SKIPPED"}]
                    ELSE lk
           /\ Upd(t, [thr[t] EXCEPT !.pc = "done", !.op = "nowait",
                                    !.cur = l, !.rc = pred,
                                    !.ret = result])
    /\ UNCHANGED <<lr_granted, lr_waiting, ns_unused_list, enq, imp, now>>

\* the thread is free for the next call
PolicyAgain(t) ==
    /\ thr[t].pc = "done"
    /\ thr[t].op \in {"policy", "lrur", "nowait", "prep", "cp_timeout"}
    /\ Upd(t, ThreadIdle)
    /\ UNCHANGED <<lk, lr_granted, lr_waiting, ns_unused_list, enq, imp, now>>

\* two unused locks on the LRU, one used a tick later than the other
InitPolicy ==
    /\ enq = EnqIdle
    /\ thr = [t \in Threads |-> ThreadIdle]
    /\ now = 1
    /\ \E c \in {{"CANCELSET", "LRU_RESIZE"}, {"CANCELSET"}} :
          imp = [ImportIdle EXCEPT !.connect = c]
    /\ lk = [l \in Locks |-> CachedLock("PLAIN", {}, l - 1)]
    /\ lr_granted = Locks
    /\ lr_waiting = {}
    /\ ns_unused_list = SeqAsc(Locks)

NextPolicy ==
    \/ \E t \in Threads, flags \in SUBSET LruFlagBits : PolicyCall(t, flags)
    \/ \E t \in Threads, l \in Locks, slv \in 0..MaxPoolVal,
          unused \in 0..NLocks, added \in 0..MaxTarget,
          count \in 0..MaxTarget :
          LrurCall(t, l, slv, unused, added, count)
    \/ \E t \in Threads : PolicyAgain(t)
    \/ Tick

SpecPolicy == InitPolicy /\ [][NextPolicy]_vars

\* the no_wait policy asked on its own and by scans of the LRU with
\* LDLM_LRU_FLAG_NO_WAIT or LDLM_LRU_FLAG_LRUR_NO_WAIT
NextNoWait ==
    \/ \E t \in Threads, l \in Locks, pred \in {"none", "refuse", "accept"} :
          NoWaitCall(t, l, pred)
    \/ \E t \in Threads, count \in 1..MaxTarget,
          flags \in {{"NO_WAIT"}, {"LRUR_NO_WAIT"}} :
          PrepCall(t, count, 0, flags)
    \/ \E t \in Threads :
          \/ PrepEnter(t)
          \/ PrepScan(t)
          \/ PrepPolicy(t)
          \/ PrepLost(t)
          \/ PrepAdd(t)
          \/ PolicyAgain(t)
    \/ Tick

SpecNoWait == Init /\ [][NextNoWait]_vars

(* ------------------------ replay_lock_interpret ------------------------ *)

\* the remote handle the server returns in the reply to a replay
ReplyHandle == "h1"

\* the status replay_lock_interpret ends with, lines 1905-1921
ReplayStatus(rc, reply, found) ==
    IF rc # "OK" THEN rc
    ELSE IF ~reply THEN "EPROTO"
    ELSE IF ~found THEN "ESTALE"
    ELSE "OK"

\* a variant of replay_lock_interpret that advances the recovery state
\* machine whatever the status
replay_lock_interpret_advances(l, rc, reply) ==
    /\ imp.queued > 0
    /\ \E t \in Threads : \E p \in thr[t].sent : p[1] = l
    /\ \A a \in imp.answered : a.lock # l
    /\ LET found == ldlm_handle2lock(l) # 0
           status == ReplayStatus(rc, reply, found)
       IN  /\ imp' = [imp EXCEPT
                         !.replay_inflight = @ - 1,
                         !.queued = @ - 1,
                         !.answered = @ \cup {[lock |-> l, rc |-> rc,
                                               reply |-> reply,
                                               found |-> found,
                                               status |-> status]},
                         !.recovery_steps = @ + 1,
                         !.connect_calls = IF status = "OK" THEN @
                                           ELSE @ + 1]
           /\ lk' = IF status = "OK"
                    THEN [lk EXCEPT ![l].remote = ReplyHandle]
                    ELSE lk
    /\ UNCHANGED <<lr_granted, lr_waiting, ns_unused_list, enq, thr, now>>

\* replay_lock_interpret(env, req, aa, rc), lines 1896-1947, for the replay
\* request of lock l: rc is the status of the request, reply tells whether
\* the reply has a body; ReplayInterpret above is this function seen
\* through imp_replay_inflight alone.  The counter goes down (line 1904);
\* with all well the lock is re-hashed under the handle of the reply and
\* ptlrpc_import_recovery_state_machine is called (lines 1925-1942);
\* with any other status ptlrpc_connect_import is called (lines 1943-1945)
replay_lock_interpret(l, rc, reply) ==
    /\ imp.queued > 0
    /\ \E t \in Threads : \E p \in thr[t].sent : p[1] = l
    /\ \A a \in imp.answered : a.lock # l
    /\ LET found == ldlm_handle2lock(l) # 0
           status == ReplayStatus(rc, reply, found)
       IN  /\ imp' = [imp EXCEPT
                         !.replay_inflight = @ - 1,
                         !.queued = @ - 1,
                         !.answered = @ \cup {[lock |-> l, rc |-> rc,
                                               reply |-> reply,
                                               found |-> found,
                                               status |-> status]},
                         !.recovery_steps = IF status = "OK" THEN @ + 1
                                            ELSE @,
                         !.connect_calls = IF status = "OK" THEN @
                                           ELSE @ + 1]
           /\ lk' = IF status = "OK"
                    THEN [lk EXCEPT ![l].remote = ReplyHandle]
                    ELSE lk
    /\ UNCHANGED <<lr_granted, lr_waiting, ns_unused_list, enq, thr, now>>

\* the holder of a lock cancels it while its replay is in flight:
\* ldlm_lock_cancel() destroys the lock and its handle
ReplayedLockCancelled(l) ==
    /\ lk[l].alive
    /\ ~ldlm_is_destroyed(l)
    /\ \E t \in Threads : \E p \in thr[t].sent : p[1] = l
    /\ ldlm_lock_cancel(l)
    /\ UNCHANGED <<enq, thr, imp, now>>

\* the replies a replay request can get
ReplayReplies == {"OK", "EIO", "ETIMEDOUT"}

\* the locks of the chain are replayed and the replies come in
NextReplayReply ==
    \/ \E t \in Threads :
          \/ ReplayRelease(t)
          \/ ReplaySkip(t)
          \/ ReplayNoMem(t)
          \/ ReplaySend(t)
          \/ ReplayDone(t)
    \/ \E l \in Locks, rc \in ReplayReplies, reply \in BOOLEAN :
          replay_lock_interpret(l, rc, reply)
    \/ \E l \in Locks : ReplayedLockCancelled(l)

SpecReplayReply == InitReplayOne /\ [][NextReplayReply]_vars

(* ------------------- ldlm_cli_cancel_list on its own ------------------- *)

\* the longest batch handed to ldlm_cli_cancel_list
MaxBatch == 3

\* ldlm_cli_cancel_list(cancels, count, req, flags), lines 1640-1685, for a
\* batch of n locks, n >= count; only the length of the batch matters, so
\* its locks are the numbers 1..n.  With nothing to do it returns (lines
\* 1647-1648); with cancel sets and a request the handles are packed and
\* the count locks released in one round (lines 1661-1664, 1680-1681);
\* otherwise the loop sends cancel RPCs
CancelListCall(t, n, count, req, flags) ==
    /\ MayStart(t)
    /\ count <= n
    /\ LET r == [thr[t] EXCEPT !.op = "list",
                               !.cancels = [i \in 1..n |-> i],
                               !.args = [len |-> n, count |-> count,
                                         req |-> req]]
       IN  Upd(t, IF count > 0 /\ req /\ exp_connect_cancelset
                  THEN Finished([r EXCEPT !.cancels = Drop(@, count),
                                          !.list_ret = "0"], "0")
                  ELSE CancelListOuter(r, count, flags))
    /\ UNCHANGED <<lk, lr_granted, lr_waiting, ns_unused_list, enq, imp, now>>

\* one round of the loop with any status of the cancel RPC
ClRoundAnyStatus(t) == ClRoundOn(t, RpcOutcomes \cup PositiveStatuses)

InitCancelList ==
    /\ enq = EnqIdle
    /\ thr = [t \in Threads |-> ThreadIdle]
    /\ now = 1
    /\ \E c \in {{"CANCELSET"}, {}} : imp = [ImportIdle EXCEPT !.connect = c]
    /\ lk = [l \in Locks |-> CancelledLock]
    /\ lr_granted = {}
    /\ lr_waiting = {}
    /\ ns_unused_list = <<>>

NextCancelList ==
    \/ \E t \in Threads, n \in 1..MaxBatch, count \in 0..MaxBatch,
          req \in BOOLEAN, flags \in {{}, {"LCF_ASYNC"}} :
          CancelListCall(t, n, count, req, flags)
    \/ \E t \in Threads : ClRetry(t) \/ ClRoundAnyStatus(t)

SpecCancelList == InitCancelList /\ [][NextCancelList]_vars

(* ------------------ the send loop without an end in sight --------------- *)

\* the head of the loop, lines 933-971, with the count of attempts kept at
\* MaxAttempts once it is there, so that the loop can go round for ever
CancelReqTopAgain(t) ==
    CancelReqTopOn(t, IF thr[t].tries < MaxAttempts THEN thr[t].tries + 1
                      ELSE MaxAttempts)

\* ptlrpc_queue_wait answers ETIMEDOUT and the generation of the import is
\* the one the request carries, lines 977-980: the request is dropped and
\* the loop continues
CancelReqTimeout(t) ==
    /\ thr[t].pc = "cr_wait"
    /\ thr[t].rq_gen = imp.imp_generation
    /\ Upd(t, [thr[t] EXCEPT !.pc = "cr_top", !.rc = "ETIMEDOUT"])
    /\ UNCHANGED <<lk, lr_granted, lr_waiting, ns_unused_list, enq, imp, now>>

\* a variant of CancelReqEnds in which the loop continues after any status
CancelReqEnds_continue(t) ==
    /\ thr[t].pc = "cr_wait"
    /\ \E out \in ReplyStatuses :
          /\ out = "ETIMEDOUT" => thr[t].rq_gen # imp.imp_generation
          /\ Upd(t, [thr[t] EXCEPT !.pc = "cr_top", !.rc = out])
    /\ UNCHANGED <<lk, lr_granted, lr_waiting, ns_unused_list, enq, imp, now>>

\* ptlrpc_queue_wait answers anything else, lines 973-976 and 981-991:
\* ESTALE and OK end the loop with count, an error ends it with the
\* error, a timeout after the generation of the import changed included
CancelReqEnds(t) ==
    /\ thr[t].pc = "cr_wait"
    /\ \E out \in ReplyStatuses :
          /\ out = "ETIMEDOUT" => thr[t].rq_gen # imp.imp_generation
          /\ Upd(t, [thr[t] EXCEPT
                       !.pc = "done", !.rc = out,
                       !.ret = IF out \in {"OK", "ESTALE"}
                               THEN "count" ELSE out])
    /\ UNCHANGED <<lk, lr_granted, lr_waiting, ns_unused_list, enq, imp, now>>

\* one call of ldlm_cli_cancel_req or of ldlm_cli_cancel_list while the
\* import is invalidated and connected again
NextCancelLive ==
    \/ \E t \in Threads, count \in 1..(HandlesAvail + 1),
          flags \in {{}, {"LCF_ASYNC"}} :
          AloneStart(t) /\ CancelReqCall(t, count, flags)
    \/ \E t \in Threads :
          \/ CancelReqTopAgain(t)
          \/ CancelReqTimeout(t)
          \/ CancelReqEnds(t)
    \/ \E t \in Threads, n \in 1..MaxBatch, count \in 0..MaxBatch,
          flags \in {{}, {"LCF_ASYNC"}} :
          AloneStart(t) /\ CancelListCall(t, n, count, FALSE, flags)
    \/ \E t \in Threads : ClRetry(t) \/ ClRoundAnyStatus(t)
    \/ ImportInvalidate
    \/ ImportActivate

\* a thread in the loop runs: the head of the loop is executed, and
\* ptlrpc_queue_wait returns, every request having a deadline; the cancel
\* RPC does not time out on an unchanged generation for ever, so a wait
\* that is entered again and again ends otherwise at some point; the
\* send loop inside a round of ldlm_cli_cancel_list returns
FairCancelLive ==
    \A t \in Threads :
       /\ WF_vars(CancelReqTopAgain(t))
       /\ WF_vars(CancelReqTimeout(t) \/ CancelReqEnds(t))
       /\ SF_vars(CancelReqEnds(t))
       /\ WF_vars(ClRoundAnyStatus(t))

SpecCancelLive == InitCancelList /\ [][NextCancelLive]_vars /\ FairCancelLive

(* ----------------- the size of the lock-request buffer ------------------ *)

\* the handle slots of struct ldlm_request, the slot an enqueue uses for
\* its own lock, and the sizes in bytes of struct ldlm_request and of
\* struct lustre_handle
LDLM_LOCKREQ_HANDLES == 2
LDLM_ENQUEUE_CANCEL_OFF == 1
SizeofLdlmRequest == 104
SizeofLustreHandle == 8

\* the largest number of locks and of free slots looked at
MaxHandles == 5

\* a variant of ldlm_request_bufsize that counts both slots as free for an
\* enqueue too
ldlm_request_bufsize_nooff(count, type) ==
    LET avail == LDLM_LOCKREQ_HANDLES
    IN  SizeofLdlmRequest
          + (IF count > avail THEN (count - avail) * SizeofLustreHandle
             ELSE 0)

\* ldlm_request_bufsize(count, type), lines 99-112
ldlm_request_bufsize(count, type) ==
    LET avail == IF type = "LDLM_ENQUEUE"
                 THEN LDLM_LOCKREQ_HANDLES - LDLM_ENQUEUE_CANCEL_OFF
                 ELSE LDLM_LOCKREQ_HANDLES
    IN  SizeofLdlmRequest
          + (IF count > avail THEN (count - avail) * SizeofLustreHandle
             ELSE 0)

\* ldlm_cancel_pack, lines 884-888: the handles the buffer has room for
PackMax(size) ==
    (size - SizeofLdlmRequest) \div SizeofLustreHandle + LDLM_LOCKREQ_HANDLES

\* ldlm_cancel_pack(req, head, count), lines 874-905, on a buffer of the
\* given size that holds lock_count handles: the assertion of line 888
\* and the count handles written behind the ones there
PackInto(r, opc, size, lock_count, count) ==
    LET a == [opc |-> opc, size |-> size, before |-> lock_count,
              count |-> count, max |-> PackMax(size),
              lock_count |-> lock_count + count]
    IN  IF PackMax(size) >= lock_count + count
        THEN Finished([r EXCEPT !.args = a], "0")
        ELSE [r EXCEPT !.pc = "lbug", !.args = a]

\* ldlm_prep_enqueue_req, lines 676-681, and of ldlm_prep_elc_req the
\* lines 636-666 on a connection with cancel sets: with avail free slots
\* and count locks collected, pack = min(avail, count), the buffer gets
\* ldlm_request_bufsize(pack, LDLM_ENQUEUE) bytes, lock_count is set to
\* canceloff = 1 and ldlm_cli_cancel_list(cancels, pack, req, 0) packs
\* pack handles unless pack is 0 (lines 1647-1648)
BufPrepEnqueue(t, avail, count) ==
    /\ MayStart(t)
    /\ exp_connect_cancelset
    /\ LET pack == IF avail > count THEN count ELSE avail
           size == ldlm_request_bufsize(pack, "LDLM_ENQUEUE")
           r == [thr[t] EXCEPT !.op = "buf", !.avail = avail, !.pack = pack]
       IN  Upd(t, IF pack = 0
                  THEN Finished([r EXCEPT
                          !.args = [opc |-> "LDLM_ENQUEUE", size |-> size,
                                    before |-> LDLM_ENQUEUE_CANCEL_OFF,
                                    count |-> 0, max |-> PackMax(size),
                                    lock_count |-> LDLM_ENQUEUE_CANCEL_OFF]],
                          "0")
                  ELSE PackInto(r, "LDLM_ENQUEUE", size,
                                LDLM_ENQUEUE_CANCEL_OFF, pack))
    /\ UNCHANGED <<lk, lr_granted, lr_waiting, ns_unused_list, enq, imp, now>>

\* ldlm_cli_cancel_req, lines 926-958: count > 0 is cut down to the free
\* handles of a cancel request, the buffer gets
\* ldlm_request_bufsize(count, LDLM_CANCEL) bytes and ldlm_cancel_pack
\* packs count handles into the empty buffer
BufCancelReq(t, free, count) ==
    /\ MayStart(t)
    /\ LET n == IF count > free THEN free ELSE count
           size == ldlm_request_bufsize(n, "LDLM_CANCEL")
           r == [thr[t] EXCEPT !.op = "buf", !.avail = free, !.pack = n]
       IN  Upd(t, PackInto(r, "LDLM_CANCEL", size, 0, n))
    /\ UNCHANGED <<lk, lr_granted, lr_waiting, ns_unused_list, enq, imp, now>>

NextBuf ==
    \/ \E t \in Threads, avail \in 0..MaxHandles, count \in 0..MaxHandles :
          BufPrepEnqueue(t, avail, count)
    \/ \E t \in Threads, free \in LDLM_LOCKREQ_HANDLES..MaxHandles,
          count \in 1..MaxHandles :
          BufCancelReq(t, free, count)

SpecBuf == InitCancelList /\ [][NextBuf]_vars

(* --------------------------- ldlm_cp_timeout --------------------------- *)

\* an unsigned int of 32 bits is a pair <<high half, low half>> of 16-bit
\* halves
U16 == 65536

U32Less(x, y) == x[1] < y[1] \/ (x[1] = y[1] /\ x[2] < y[2])

\* max() of two unsigned ints
U32Max(x, y) == IF U32Less(x, y) THEN y ELSE x

\* 3 * x in unsigned int arithmetic: the bits above bit 31 are lost
U32Mul3(x) ==
    LET lo == 3 * x[2]
    IN  <<(3 * x[1] + lo \div U16) % U16, lo % U16>>

\* 3 * x does not fit into 32 bits
U32Mul3Wraps(x) == 3 * x[1] + (3 * x[2]) \div U16 >= U16

\* the values timeouts are drawn from: 0, 1, 100, 0x55555555 (the largest
\* value whose triple fits), 0x55555556 and 0xffffffff
U32Values ==
    {<<0, 0>>, <<0, 1>>, <<0, 100>>, <<21845, 21845>>, <<21845, 21846>>,
     <<65535, 65535>>}

\* a variant of ldlm_cp_timeout without the AT_OFF case
ldlm_cp_timeout_noatoff(at_off, obd_timeout, timeout, ldlm_enqueue_min) ==
    U32Max(U32Mul3(timeout), ldlm_enqueue_min)

\* ldlm_cp_timeout, lines 164-178; at_off is AT_OFF, timeout what
\* at_get(ldlm_lock_to_ns_at(lock)) returns
ldlm_cp_timeout(at_off, obd_timeout, timeout, ldlm_enqueue_min) ==
    IF at_off THEN obd_timeout
    ELSE U32Max(U32Mul3(timeout), ldlm_enqueue_min)

\* a call of ldlm_cp_timeout (line 282 of ldlm_completion_ast); the thread
\* keeps the configuration and the value returned
CpTimeoutCall(t, at_off, obd_timeout, timeout, ldlm_enqueue_min) ==
    /\ AloneStart(t)
    /\ Upd(t, [thr[t] EXCEPT
                 !.pc = "done", !.op = "cp_timeout",
                 !.args = [at_off |-> at_off, obd_timeout |-> obd_timeout,
                           timeout |-> timeout,
                           ldlm_enqueue_min |-> ldlm_enqueue_min,
                           T |-> ldlm_cp_timeout(at_off, obd_timeout,
                                                 timeout,
                                                 ldlm_enqueue_min)]])
    /\ UNCHANGED <<lk, lr_granted, lr_waiting, ns_unused_list, enq, imp, now>>

NextCpTimeout ==
    \/ \E t \in Threads, at_off \in BOOLEAN, obd_timeout \in U32Values,
          timeout \in U32Values, ldlm_enqueue_min \in U32Values :
          CpTimeoutCall(t, at_off, obd_timeout, timeout, ldlm_enqueue_min)
    \/ \E t \in Threads : PolicyAgain(t)

SpecCpTimeout == InitLocks /\ [][NextCpTimeout]_vars

(* ------------- the LRU scan against users and cancellers --------------- *)

\* ldlm_lock_addref() on an unused lock, as a match does it: the lock gets
\* a reader and leaves the LRU; a lock that is being cancelled is not
\* matched
LockAddref(l) ==
    /\ lk[l].alive
    /\ lk[l].refs = 0
    /\ lk[l].flags \cap {"CBPENDING", "CANCELING", "BL_AST", "DESTROYED"} = {}
    /\ lk' = [lk EXCEPT ![l].refs = 1]
    /\ ns_unused_list' = SeqWithout(ns_unused_list, l)
    /\ UNCHANGED <<lr_granted, lr_waiting, enq, thr, imp, now>>

\* ldlm_lock_decref() of the last reader: the lock goes to the tail of the
\* LRU with a new last_used stamp
LockDecref(l) ==
    /\ lk[l].alive
    /\ lk[l].refs > 0
    /\ ldlm_lock_decref_internal(l)
    /\ UNCHANGED <<enq, thr, imp, now>>

\* two unused locks on the LRU, the first one CANCEL_ON_BLOCK
InitScanRace ==
    /\ enq = EnqIdle
    /\ thr = [t \in Threads |-> ThreadIdle]
    /\ now = 1
    /\ \E c \in {{"CANCELSET", "LRU_RESIZE"}, {}} :
          imp = [ImportIdle EXCEPT !.connect = c]
    /\ lk = [l \in Locks |->
                CachedLock("PLAIN", IF l = 1 THEN {"CANCEL_ON_BLOCK"} ELSE {},
                           0)]
    /\ lr_granted = Locks
    /\ lr_waiting = {}
    /\ ns_unused_list = SeqAsc(Locks)

\* thread 1 scans the LRU with ldlm_prepare_lru_list while the locks are
\* matched and released, another thread cancels them with ldlm_cli_cancel
\* and the clock runs
NextScanRace ==
    \/ \E count \in 1..MaxTarget, flags \in {{"PASSED"}, {"AGED"}} :
          PrepCall(1, count, 0, flags)
    \/ \E t \in Threads \ {1}, l \in Locks : CancelMark(t, l, {})
    \/ \E t \in Threads :
          \/ CancelLocalFlags(t)
          \/ CancelLocalCancel(t)
          \/ CancelAssert(t)
          \/ CancelLink(t)
          \/ PrepEnter(t)
          \/ PrepScan(t)
          \/ PrepPolicy(t)
          \/ PrepLost(t)
          \/ PrepAdd(t)
          \/ CllNextRemote(t)
          \/ CllCancel(t)
          \/ ClRetry(t)
          \/ ClRound(t)
    \/ \E l \in Locks : LockAddref(l) \/ LockDecref(l)
    \/ Tick

SpecScanRace == InitScanRace /\ [][NextScanRace]_vars

(* ======================================================================= *)
(*                     claims about the enqueue pipeline                   *)
(* ======================================================================= *)

Granted(l) == lk[l].granted_mode = lk[l].req_mode

FiniReturned == enq.pc = "enq_ret"

\* C1 as stated: whenever ldlm_cli_enqueue_fini returns 0 the lock's
\* granted_mode equals its req_mode, for the synchronous and the
\* asynchronous completion callback, for replay and non-replay enqueues.
C1_FiniOkMeansGranted ==
    (FiniReturned /\ enq.fini_rc = "OK") => Granted(EnqLock)

\* C1 amended: whenever ldlm_cli_enqueue_fini returns 0 for an enqueue that
\* is not a replay and whose completion callback is the synchronous
\* ldlm_completion_ast, granted_mode equals req_mode at the return.
C1_SyncFiniOkMeansGranted ==
    (/\ FiniReturned
     /\ enq.fini_rc = "OK"
     /\ ~enq.is_replay
     /\ enq.cb = "sync") => Granted(EnqLock)

\* C1 witness: a synchronous, non-replay enqueue whose reply said "blocked"
\* parked in the callback and ldlm_cli_enqueue_fini then returned 0
C1_Witness ==
    /\ FiniReturned
    /\ enq.fini_rc = "OK"
    /\ ~enq.is_replay
    /\ enq.cb = "sync"
    /\ enq.cp_calls = 1
    /\ enq.flags \cap LDLM_FL_BLOCKED_MASK # {}
    /\ Granted(EnqLock)

\* the synchronous callback has returned err to its caller
SyncCpReturned ==
    /\ enq.cb = "sync"
    /\ enq.cp_calls = 1
    /\ \/ enq.op = "enqueue" /\ enq.pc = "fini_copy"
       \/ enq.op = "wait" /\ enq.pc = "done"

ReplyAccepted == enq.fail_point \in {"none", "cp"}

C4_FailedEnqueueKillsLock ==
    (/\ enq.op = "enqueue"
     /\ enq.pc = "done"
     /\ enq.created
     /\ enq.ret # "OK") =>
        IF lk[EnqLock].type = "FLOCK"
        THEN ldlm_is_destroyed(EnqLock)
        ELSE ldlm_is_failed(EnqLock) \/ ldlm_is_destroyed(EnqLock)

(* ======================================================================= *)
(*                     claims about the cancel pipeline                    *)
(* ======================================================================= *)

\* thread t has returned from ldlm_cli_cancel
CancelReturned(t) == thr[t].op = "cancel" /\ thr[t].pc = "done"

\* C5: ldlm_cli_cancel and ldlm_cli_cancel_list return 0 for every outcome
\* of the cancel RPC (success, ESTALE, timeout, shutdown, allocation or
\* packing failure, invalid import): an error of the cancel RPC never
\* reaches the caller.
C5_CancelNeverFails ==
    \A t \in Threads :
        /\ thr[t].list_ret \in {"none", "0"}
        /\ CancelReturned(t) => thr[t].ret = "0"

\* C5 witness: ldlm_cli_cancel returned 0 although an attempt to send the
\* cancel RPC ended in an error
C5_Witness ==
    \E t \in Threads :
        /\ CancelReturned(t)
        /\ thr[t].rpc_failed
        /\ thr[t].list_ret = "0"
        /\ thr[t].ret = "0"

\* the lock is unlinked from its resource and its cancel has been done
FullyCancelled(l) ==
    /\ ldlm_is_bl_done(l)
    /\ l \notin lr_granted \cup lr_waiting

ReturnedEarly(t) ==
    thr[t].was_canceling /\ "LCF_ASYNC" \in thr[t].cflags

ListsOf(l) ==
    Cardinality({n \in {"granted", "waiting", "unused_lru", "bl_ast",
                        "pending_chain"} :
        \/ n = "granted" /\ l \in lr_granted
        \/ n = "waiting" /\ l \in lr_waiting
        \/ n = "unused_lru" /\ InSeq(ns_unused_list, l)
        \/ n = "bl_ast" /\ OnBatch(l)
        \/ n = "pending_chain" /\ OnChain(l)})

\* C8 as stated: in every reachable state a lock is linked into at most one
\* of the lists granted, waiting, unused_lru, bl_ast and pending_chain.
C8_OneListAtATime == \A l \in Locks : ListsOf(l) <= 1

\* the batches of ldlm_cli_cancel and of the drain before replay: their
\* locks were linked by ldlm_cli_cancel itself or by ldlm_prepare_lru_list
LruBatchLocks ==
    {l \in Locks : \E t \in Threads :
        /\ thr[t].op \in {"cancel", "replay"}
        /\ InSeq(thr[t].cancels, l) \/ InSeq(thr[t].head, l)}

\* C8 amended: a lock is never on the granted and the waiting list at once,
\* a destroyed lock is on neither of them nor on the LRU, and a lock that
\* ldlm_prepare_lru_list or ldlm_cli_cancel linked into a batch is off the
\* LRU.
C8_ListsKeptApart ==
    \A l \in Locks :
        /\ ~(l \in lr_granted /\ l \in lr_waiting)
        /\ ldlm_is_destroyed(l) =>
              /\ l \notin lr_granted \cup lr_waiting
              /\ ~InSeq(ns_unused_list, l)
        /\ l \in LruBatchLocks => ~InSeq(ns_unused_list, l)

\* C8 witness: ldlm_prepare_lru_list has moved an LRU lock to the batch of
\* ldlm_cli_cancel; the lock is on the batch and still on the granted list
C8_Witness ==
    \E t \in Threads, l \in Locks :
        /\ thr[t].op = "cancel"
        /\ l # thr[t].lock
        /\ InSeq(thr[t].cancels, l)
        /\ l \in lr_granted
        /\ ~InSeq(ns_unused_list, l)

\* C9 as stated: in every reachable state a lock with CANCELING set is not
\* on the unused LRU list.
C9_CancelingOffLru ==
    \A l \in Locks : ldlm_is_canceling(l) => ~InSeq(ns_unused_list, l)

\* thread t marked lock l CANCELING and its local cancel of l is still
\* ahead: in ldlm_cli_cancel before ldlm_lock_cancel, or in the loop of
\* ldlm_cli_cancel_list_local over what ldlm_cancel_resource_local picked
LocalCancelAhead(t, l) ==
    \/ /\ thr[t].op = "cancel"
       /\ thr[t].lock = l
       /\ thr[t].pc \in {"cl_flags", "cl_cancel"}
       /\ thr[t].back = "cancel"
    \/ /\ thr[t].op = "res"
       /\ thr[t].pc \in {"cll_loop", "cl_cancel"}
       /\ \E i \in thr[t].pos..Len(thr[t].cancels) : thr[t].cancels[i] = l

\* C9 amended: a lock with CANCELING set is on the unused LRU list only
\* while a thread that marked it in ldlm_cli_cancel or in
\* ldlm_cancel_resource_local has the local cancel of the lock still ahead;
\* a lock ldlm_prepare_lru_list marked is off the LRU.
C9_CancelingOnLruOnlyBeforeLocalCancel ==
    \A l \in Locks :
        (ldlm_is_canceling(l) /\ InSeq(ns_unused_list, l)) =>
            \E t \in Threads : LocalCancelAhead(t, l)

\* C9 witness: ldlm_cli_cancel has set CANCELING and the lock is on the LRU
C9_Witness ==
    \E t \in Threads :
        /\ thr[t].op = "cancel"
        /\ thr[t].pc = "cl_flags"
        /\ ldlm_is_canceling(thr[t].lock)
        /\ InSeq(ns_unused_list, thr[t].lock)

\* C10: in every reachable state every lock linked into a cancel batch
\* through l_bl_ast has the CANCELING flag set: ldlm_cli_cancel,
\* ldlm_prepare_lru_list and ldlm_cancel_resource_local set it before they
\* link the lock and nothing clears it while the lock is on a batch.
C10_BatchLocksCanceling ==
    \A l \in Locks : OnBatch(l) => ldlm_is_canceling(l)

\* C10 witness: the batch of ldlm_cli_cancel holds its own lock and one
\* that ldlm_prepare_lru_list added
C10_Witness ==
    \E t \in Threads :
        /\ thr[t].op = "cancel"
        /\ thr[t].linked
        /\ Len(thr[t].cancels) = 2
        /\ \A i \in 1..2 : ldlm_is_canceling(thr[t].cancels[i])

\* the number of places in cancel batches lock l is linked into
BatchLinks(l) ==
    Cardinality({<<t, w, i>> \in Threads \X {"cancels", "head"} \X (1..NLocks + 1) :
        LET b == IF w = "head" THEN thr[t].head ELSE thr[t].cancels
        IN  i <= Len(b) /\ b[i] = l})

\* C11 as stated: under any interleaving of threads running
\* ldlm_cli_cancel, ldlm_prepare_lru_list and ldlm_cancel_resource_local on
\* the same lock, the lock is linked into at most one cancel batch at a
\* time and the assertion that l_bl_ast is empty right before the lock is
\* added to a batch never fails.
C11_OneBatchAssertHolds ==
    /\ \A l \in Locks : BatchLinks(l) <= 1
    /\ \A t \in Threads : thr[t].pc # "lbug"

(* ======================================================================= *)
(*                        claims about the LRU scan                        *)
(* ======================================================================= *)

\* thread t has returned from a call of ldlm_prepare_lru_list
PrepDone(t) == thr[t].op = "prep" /\ thr[t].pc = "done"

\* the larger of two numbers
Max2(a, b) == IF a >= b THEN a ELSE b

\* C12: for every namespace state, every policy and every positive target T
\* and positive max M, ldlm_prepare_lru_list returns added <= max(T, M),
\* and the value returned equals the number of locks it linked into the
\* caller's batch.
C12_AddedBounded ==
    \A t \in Threads :
        PrepDone(t) =>
            /\ thr[t].prep_ret = Len(thr[t].cancels)
            /\ (thr[t].count > 0 /\ thr[t].s_max > 0) =>
                  thr[t].prep_ret <= Max2(thr[t].count, thr[t].s_max)

\* C12 witness: a scan with target 1 and max 1 over an LRU of two aged
\* locks stopped after the one lock its limit allows
C12_Witness ==
    \E t \in Threads :
        /\ PrepDone(t)
        /\ thr[t].count = 1
        /\ thr[t].s_max = 1
        /\ thr[t].prep_ret = 1
        /\ Len(thr[t].cancels) = 1
        /\ Len(ns_unused_list) >= 1

(* ======================================================================= *)
(*                       claims about the pool update                      *)
(* ======================================================================= *)

\* thread t is between write_lock and write_unlock of ldlm_cli_update_pool
InPoolWrite(t) ==
    thr[t].op = "pool" /\ thr[t].pc \in {"pool_slv", "pool_limit", "pool_unlock"}

\* a reply with a zero slv or limit never reaches the stores, the stores
\* are made by the holder of the write lock with no reader inside, the pool
\* holds the pair of one reply whenever the write lock is free, and a reader
\* that has read both fields under the read lock has the pair of one reply
PoolPairsKept ==
    /\ \A t \in Threads :
          InPoolWrite(t) =>
              /\ thr[t].new_slv # 0
              /\ thr[t].new_limit # 0
              /\ imp.pool_writer = t
              /\ imp.pool_readers = 0
    /\ \A t \in Threads :
          (thr[t].op = "pool" /\ thr[t].pc = "done"
           /\ (thr[t].new_slv = 0 \/ thr[t].new_limit = 0)) => ~thr[t].stored
    /\ imp.pool_writer = 0 =>
          /\ imp.obd_pool_slv # 0
          /\ imp.obd_pool_slv = imp.obd_pool_limit
    /\ \A t \in Threads :
          (thr[t].op = "poolread" /\ thr[t].pc = "rd_unlock") =>
              /\ thr[t].seen_slv # 0
              /\ thr[t].seen_slv = thr[t].seen_limit

\* thread t has returned from ldlm_cli_update_pool on a reply whose slv and
\* limit are both non-zero
NonZeroReplyHandled(t) ==
    /\ thr[t].op = "pool"
    /\ thr[t].pc = "done"
    /\ thr[t].new_slv # 0
    /\ thr[t].new_limit # 0

\* C13: ldlm_cli_update_pool leaves obd_pool_slv and obd_pool_limit
\* unchanged whenever the reply carries slv = 0 or limit = 0; when both are
\* non-zero and the import has negotiated lru_resize it stores both values
\* of the reply together under the write lock, and a reader holding the
\* read lock never sees the slv of one reply with the limit of another.
C13_PoolUpdate ==
    /\ PoolPairsKept
    /\ \A t \in Threads :
          (NonZeroReplyHandled(t) /\ imp_connect_lru_resize) => thr[t].stored

\* C13 as stated: every reply with a non-zero slv and a non-zero limit is
\* stored, whatever the import has negotiated
C13_NonZeroAlwaysStored ==
    /\ PoolPairsKept
    /\ \A t \in Threads : NonZeroReplyHandled(t) => thr[t].stored

\* C13 witness: on an lru_resize import a reader holds the read lock and
\* has read the pair a reply stored, while another thread has just dropped
\* a reply with a zero limit
C13_Witness ==
    \E t, u \in Threads :
        /\ thr[t].op = "poolread"
        /\ thr[t].pc = "rd_unlock"
        /\ thr[t].seen_slv = 2
        /\ thr[t].seen_limit = 2
        /\ imp_connect_lru_resize
        /\ thr[u].op = "pool"
        /\ thr[u].pc = "done"
        /\ thr[u].new_slv # 0
        /\ thr[u].new_limit = 0

(* ======================================================================= *)
(*                         claims about lock replay                        *)
(* ======================================================================= *)

\* thread t is inside ldlm_replay_locks, between the guard increment of
\* line 2076 and the guard decrement of line 2093
InReplayWalk(t) == thr[t].op = "replay" /\ thr[t].pc \notin {"idle", "done"}

\* C14: from the guard increment of imp_replay_inflight until the guard
\* decrement the counter is at least 1 (it is the guard plus the requests
\* not yet interpreted), however the walk interleaves with the interpreters.
C14_GuardHoldsCounter ==
    \A t \in Threads :
        InReplayWalk(t) =>
            /\ imp.replay_inflight >= 1
            /\ imp.replay_inflight = imp.queued + 1

\* C14 witness: in the middle of the walk a request was queued and has been
\* interpreted already, with a lock still to replay
C14_Witness ==
    \E t \in Threads :
        /\ InReplayWalk(t)
        /\ thr[t].pc = "rp_loop"
        /\ thr[t].chain # <<>>
        /\ thr[t].sent # {}
        /\ imp.queued = 0
        /\ imp.replay_inflight = 1

\* C15: once ldlm_replay_locks has returned and every queued replay request
\* has been interpreted imp_replay_inflight is 0, and it is never negative.
C15_InflightBackToZero ==
    /\ imp.replay_inflight >= 0
    /\ ((\A t \in Threads : ~InReplayWalk(t)) /\ imp.queued = 0) =>
           imp.replay_inflight = 0

\* C15 witness: the walk sent one request, failed to allocate the next and
\* returned -ENOMEM, and the request sent has been interpreted
C15_Witness ==
    \E t \in Threads :
        /\ thr[t].op = "replay"
        /\ thr[t].pc = "done"
        /\ thr[t].ret = "ENOMEM"
        /\ thr[t].sent # {}
        /\ imp.queued = 0
        /\ imp.replay_inflight = 0

\* the cases of the replay flags, each stated on its own
ReplayCases(l) ==
    {c \in {"granted", "conv", "wait", "unknown"} :
        \/ c = "granted" /\ lk[l].granted_mode = lk[l].req_mode
        \/ c = "conv" /\ lk[l].granted_mode # "NONE"
                      /\ lk[l].granted_mode # lk[l].req_mode
        \/ c = "wait" /\ lk[l].granted_mode = "NONE"
                      /\ l \in lr_granted \cup lr_waiting
        \/ c = "unknown" /\ lk[l].granted_mode = "NONE"
                         /\ lk[l].granted_mode # lk[l].req_mode
                         /\ l \notin lr_granted \cup lr_waiting}

\* the flags that go with a case
CaseFlags(c) ==
    IF c = "granted" THEN {"REPLAY", "BLOCK_GRANTED"}
    ELSE IF c = "conv" THEN {"REPLAY", "BLOCK_CONV"}
    ELSE IF c = "wait" THEN {"REPLAY", "BLOCK_WAIT"}
    ELSE {"REPLAY"}

\* C16: the flags replay_one_lock sends for a lock are REPLAY|BLOCK_GRANTED
\* when granted_mode equals req_mode, REPLAY|BLOCK_CONV when granted_mode is
\* non-zero but differs, REPLAY|BLOCK_WAIT when granted_mode is zero and the
\* lock is linked on a resource list, REPLAY alone otherwise; exactly one of
\* the four cases applies to the lock at the step that sends the request.
C16_ReplayFlagsByCase ==
    [][\A t \in Threads : \A p \in thr'[t].sent \ thr[t].sent :
          /\ Cardinality(ReplayCases(p[1])) = 1
          /\ \A c \in ReplayCases(p[1]) : p[2] = CaseFlags(c)]_vars

\* C16 witness: one walk has replayed a converting lock and a lock whose
\* enqueue has no disposition yet
C16_Witness ==
    \E t \in Threads : \E p, q \in thr[t].sent :
        /\ p[2] = {"REPLAY", "BLOCK_CONV"}
        /\ q[2] = {"REPLAY"}

\* C17: ldlm_replay_locks queues a replay request only for locks that, when
\* replay_one_lock examines them, have none of FAILED, BL_DONE and
\* CANCEL_ON_BLOCK set, and the walk chains no FAILED and no BL_DONE lock.
C17_ReplayOnlyLiveLocks ==
    [][\A t \in Threads :
          /\ \A p \in thr'[t].sent \ thr[t].sent :
                lk[p[1]].flags \cap {"FAILED", "BL_DONE", "CANCEL_ON_BLOCK"} = {}
          /\ (thr[t].pc = "rp_chain" /\ thr'[t].pc = "rp_loop") =>
                \A l \in Locks :
                    InSeq(thr'[t].chain, l) =>
                        lk[l].flags \cap {"FAILED", "BL_DONE"} = {}]_vars

\* where a thread of ldlm_replay_locks can be while and after it drains the
\* LRU: in ldlm_prepare_lru_list, in the loop of ldlm_cli_cancel_list_local,
\* or past the drain
DrainPlaces ==
    {"prep_enter", "prep_scan", "prep_policy", "prep_recheck", "cll_loop",
     "rp_chain", "rp_loop", "done"}

C19_FailImportWithParkCount ==
    [][/\ (enq.pc = "cp_entry" /\ enq'.pc = "cp_wait") =>
              enq'.lwd_conn_cnt = imp.imp_conn_cnt
       /\ (enq.pc = "cp_wait" /\ enq'.pc = "cp_wait") =>
              enq'.lwd_conn_cnt = enq.lwd_conn_cnt
       /\ imp'.fail_calls # imp.fail_calls =>
              /\ enq.pc = "cp_wait"
              /\ imp'.fail_calls = imp.fail_calls \cup {enq.lwd_conn_cnt}]_vars

\* C19 witness: the import reconnected while the caller was parked and was
\* then failed with the older count
C19_Witness ==
    /\ enq.expired
    /\ enq.lwd_conn_cnt = 1
    /\ imp.fail_calls = {1}
    /\ imp.imp_conn_cnt > 1

\* the timeout fired, no completion arrived and the enqueue has returned
TimedOutAndReturned ==
    /\ enq.expired
    /\ enq.op = "enqueue"
    /\ enq.pc = "done"
    /\ lk[EnqLock].granted_mode # lk[EnqLock].req_mode

FailedStamped(l) == l = EnqLock /\ FailedStamp \subseteq lk[l].flags

\* C21: once failed_lock_cleanup has stamped a lock with LOCAL_ONLY, FAILED,
\* ATOMIC_CB and CBPENDING, no cancel RPC is ever sent for it:
\* ldlm_cli_cancel_local reports LOCAL_ONLY for it, ldlm_cli_cancel returns
\* without linking it and without an RPC, no batch that
\* ldlm_cli_cancel_list sends holds it, and an enqueue answered with
\* LOCK_ABORTED ends with its lock stamped and in no such batch.
C21_FailedLockNeverInCancelRpc ==
    /\ \A t \in Threads :
          /\ (thr[t].pc = "cl_cancel" /\ FailedStamped(thr[t].cur))
                 => thr[t].rc = "LOCAL_ONLY"
          /\ (thr[t].op = "cancel" /\ FailedStamped(thr[t].lock))
                 => (~thr[t].linked /\ ~thr[t].rpc_sent)
          /\ thr[t].pc = "cl_loop"
                 => \A i \in 1..Len(Batch(thr[t])) :
                       ~FailedStamped(Batch(thr[t])[i])
    /\ (enq.pc = "done" /\ enq.ret = "LOCK_ABORTED")
          => FailedStamped(EnqLock)

\* the enqueue was answered with LOCK_ABORTED and has returned, its lock
\* was stamped, and a later ldlm_cli_cancel of that lock has returned
\* after cancelling it locally
C21_Witness ==
    /\ enq.pc = "done"
    /\ enq.ret = "LOCK_ABORTED"
    /\ FailedStamped(EnqLock)
    /\ \E t \in Threads :
          /\ thr[t].pc = "done"
          /\ thr[t].op = "cancel"
          /\ thr[t].lock = EnqLock
          /\ ~thr[t].was_canceling
          /\ ~thr[t].rpc_sent
    /\ ldlm_is_destroyed(EnqLock)

(* ----------------------------- C22 ------------------------------------- *)

\* thread t runs or has run ldlm_prep_elc_req on a connection with cancel
\* sets and is past the packing
ElcPacked(t) ==
    /\ thr[t].op = "elc"
    /\ exp_connect_cancelset
    /\ thr[t].pc \in {"cl_loop", "done"}
    /\ thr[t].ret # "ENOMEM"

\* an unused lock the aged policy would cancel is still on the LRU
AgedLockLeft ==
    \E i \in 1..Len(ns_unused_list) :
       /\ lk[ns_unused_list[i]].flags = {}
       /\ lk[ns_unused_list[i]].refs = 0
       /\ lk[ns_unused_list[i]].last_used + ns_max_age <= now

LockBlocked(t) ==
    /\ thr[t].pc = "locks"
    /\ thr[t].path # <<>>
    /\ Head(thr[t].path)[1] = "acq"
    /\ HeldByOther(t, Head(thr[t].path)[2])

FailedAfterAccept ==
    /\ enq.pc \in {"enq_ret", "done"}
    /\ enq.fini_rc \notin {"none", "OK"}
    /\ enq.fail_point \in {"reschange", "lvbfill", "cp"}

\* C24: whenever ldlm_cli_enqueue_fini returns a non-zero status for a
\* failure after the reply body was accepted (resource change after
\* LOCK_CHANGED, LVB copy into the lock, lock_enqueue, completion
\* callback), failed_lock_cleanup has been invoked before the return.
C24_PostReplyFailureCleansUp ==
    FailedAfterAccept => enq.flc_calls > 0

(* ----------------------------- C25 ------------------------------------- *)

\* ldlm_cli_enqueue_fini has returned from its LOCK_ABORTED branch
AbortedReturned ==
    /\ enq.pc \in {"enq_ret", "done"}
    /\ enq.fail_point = "aborted"

\* C25 (as the code has it): when the RPC status is LOCK_ABORTED and the
\* reply body and its LVB size are accepted, ldlm_cli_enqueue_fini returns
\* LOCK_ABORTED unless reading the reply LVB into the caller's buffer
\* fails, and then it returns that error; with LOCK_ABORTED returned and an
\* LVB expected, the buffer of the caller holds the LVB of the reply. In
\* both cases the reply is not installed (no remote handle, the lock is not
\* put on the waiting list), the completion callback is not invoked and
\* failed_lock_cleanup runs once.
C25_AbortedStatusKept ==
    AbortedReturned =>
       /\ enq.fini_rc \in {"LOCK_ABORTED", "EPROTO"}
       /\ enq.fini_rc = "EPROTO" => (enq.lvb_len > 0 /\ enq.lvb = "empty")
       /\ (enq.fini_rc = "LOCK_ABORTED" /\ enq.lvb_len > 0
             /\ enq.lvb # "absent") => enq.lvb = "reply"
       /\ lk[EnqLock].remote = "none"
       /\ EnqLock \notin lr_waiting
       /\ enq.cp_calls = 0
       /\ enq.flc_calls = 1

\* C25 as stated: the LOCK_ABORTED branch always returns LOCK_ABORTED
C25_AbortedAlwaysReturned ==
    AbortedReturned => enq.fini_rc = "LOCK_ABORTED"

\* an aborted enqueue has returned LOCK_ABORTED with the LVB of the reply
\* in the buffer of the caller
C25_Witness ==
    /\ AbortedReturned
    /\ enq.pc = "done"
    /\ enq.ret = "LOCK_ABORTED"
    /\ enq.lvb_len > 0
    /\ enq.lvb = "reply"

(* ----------------------------- C26 ------------------------------------- *)

\* ldlm_cli_enqueue_fini has returned because the LVB of the reply is
\* longer than the caller expected (the size itself could be read)
OversizeReturned ==
    /\ enq.pc \in {"enq_ret", "done"}
    /\ enq.fail_point = "lvbsize"
    /\ enq.fini_rc # "EFAULT"

\* C26: a reply whose LVB is longer than expected makes
\* ldlm_cli_enqueue_fini fail with the protocol-error status, copy nothing
\* into the LVB buffer of the lock or of the caller, and run
\* failed_lock_cleanup.
C26_OversizeLvbIsProtoError ==
    OversizeReturned =>
       /\ enq.fini_rc = "EPROTO"
       /\ enq.lvb = "empty"
       /\ lk[EnqLock].lvb # "reply"
       /\ enq.flc_calls = 1

(* ----------------------------- C27 ------------------------------------- *)

\* C27: failed_lock_cleanup adds LOCAL_ONLY, FAILED, ATOMIC_CB and CBPENDING
\* to the lock exactly when the lock is neither granted nor already FAILED
\* and otherwise leaves its flags as they are; after that a FLOCK lock that
\* is not yet destroyed is unlinked from its resource and destroyed, one
\* that is already destroyed is left alone, and a lock of any other type
\* only loses the mode reference.
C27_FailedLockCleanup ==
    [][/\ (enq.pc = "flc_stamp" /\ enq'.pc = "flc_release") =>
             /\ lk'[EnqLock].flags =
                    IF /\ lk[EnqLock].req_mode # lk[EnqLock].granted_mode
                       /\ "FAILED" \notin lk[EnqLock].flags
                    THEN lk[EnqLock].flags
                            \cup {"LOCAL_ONLY", "FAILED", "ATOMIC_CB",
                                  "CBPENDING"}
                    ELSE lk[EnqLock].flags
             /\ lk' = [lk EXCEPT ![EnqLock].flags = lk'[EnqLock].flags]
             /\ UNCHANGED <<lr_granted, lr_waiting, ns_unused_list>>
       /\ (enq.pc = "flc_release" /\ enq'.pc # "flc_release") =>
             IF lk[EnqLock].type = "FLOCK"
             THEN IF "DESTROYED" \in lk[EnqLock].flags
                  THEN UNCHANGED <<lk, lr_granted, lr_waiting>>
                  ELSE /\ "DESTROYED" \in lk'[EnqLock].flags
                       /\ EnqLock \notin lr_granted' \cup lr_waiting'
                       /\ lk'[EnqLock].refs = lk[EnqLock].refs - 1
             ELSE /\ lk'[EnqLock].flags = lk[EnqLock].flags
                  /\ lk'[EnqLock].refs = lk[EnqLock].refs - 1
                  /\ lk'[EnqLock].granted_mode = lk[EnqLock].granted_mode
                  /\ UNCHANGED <<lr_granted, lr_waiting>>]_vars

\* failed_lock_cleanup has run on a FLOCK lock that was granted in a race:
\* it is destroyed and carries no stamp
C27_Witness ==
    /\ enq.pc = "done"
    /\ enq.flc_calls = 1
    /\ lk[EnqLock].type = "FLOCK"
    /\ lk[EnqLock].granted_mode = lk[EnqLock].req_mode
    /\ "DESTROYED" \in lk[EnqLock].flags
    /\ "LOCAL_ONLY" \notin lk[EnqLock].flags

(* ----------------------------- C28 ------------------------------------- *)

\* C28: when the lock is granted at the moment ldlm_cli_enqueue_fini takes
\* lock_res_and_lock for the reply LVB, the LVB of the lock (the one the
\* completion callback installed) is left as it is: the test of the
\* granted mode and the fill are one step; and what is later copied to the
\* caller is the LVB the lock holds then.
C28_GrantedLvbNotClobbered ==
    [][/\ (/\ enq.pc = "fini_lvb"
           /\ enq'.pc # "fini_lvb"
           /\ lk[EnqLock].req_mode = lk[EnqLock].granted_mode)
             => lk'[EnqLock].lvb = lk[EnqLock].lvb
       /\ (/\ enq.pc = "fini_copy"
           /\ enq'.pc # "fini_copy"
           /\ enq.lvb_len > 0
           /\ enq.lvb # "absent")
             => (enq'.lvb = lk[EnqLock].lvb /\ lk'[EnqLock].lvb = enq'.lvb)
      ]_vars

\* an enqueue has returned 0 with the LVB of the completion callback in
\* the buffer of the caller
C28_Witness ==
    /\ enq.pc = "done"
    /\ enq.op = "enqueue"
    /\ enq.ret = "OK"
    /\ enq.lvb_len > 0
    /\ enq.lvb = "cp"
    /\ lk[EnqLock].lvb = "cp"

(* ----------------------------- C29 ------------------------------------- *)

\* thread t leaves the critical section of ldlm_cli_cancel_local (lines
\* 849-855) in this step
CancelLocalStep(t) ==
    thr[t].pc = "cl_flags" /\ thr'[t].pc = "cl_cancel"

\* thread t runs ldlm_lock_cancel and leaves ldlm_cli_cancel_local in this
\* step
CancelLocalLeaves(t) ==
    thr[t].pc = "cl_cancel" /\ thr'[t].pc # "cl_cancel"

\* C29 (as the code has it): ldlm_cli_cancel_local returns LOCAL_ONLY
\* whenever LOCAL_ONLY or CANCEL_ON_BLOCK was set on entry, whether BL_AST is
\* set or not; else BL_AST when BL_AST is set; else CANCELING. In all cases
\* CBPENDING is set and the lock is cancelled locally before the return.
C29_CancelLocalResult ==
    [][\A t \in Threads :
          /\ CancelLocalStep(t) =>
                /\ thr'[t].rc =
                       IF lk[thr[t].cur].flags
                             \cap {"LOCAL_ONLY", "CANCEL_ON_BLOCK"} # {}
                       THEN "LOCAL_ONLY"
                       ELSE IF "BL_AST" \in lk[thr[t].cur].flags
                       THEN "BL_AST"
                       ELSE "CANCELING"
                /\ "CBPENDING" \in lk'[thr[t].cur].flags
          /\ CancelLocalLeaves(t) =>
                /\ "CBPENDING" \in lk'[thr[t].cur].flags
                /\ "DESTROYED" \in lk'[thr[t].cur].flags
                /\ thr[t].cur \notin lr_granted' \cup lr_waiting'
      ]_vars

\* C29 as stated: BL_AST is returned whenever the BL_AST flag is set
C29_BlAstWhenever ==
    [][\A t \in Threads :
          (CancelLocalStep(t) /\ "BL_AST" \in lk[thr[t].cur].flags)
             => thr'[t].rc = "BL_AST"]_vars

\* ldlm_cli_cancel_local has returned LOCAL_ONLY for a lock that carries
\* BL_AST and CANCEL_ON_BLOCK, and the lock is cancelled
C29_Witness ==
    \E t \in Threads, l \in Locks :
       /\ thr[t].pc = "done"
       /\ thr[t].op = "cancel"
       /\ thr[t].lock = l
       /\ thr[t].cb
       /\ {"BL_AST", "CANCEL_ON_BLOCK", "CBPENDING", "DESTROYED"}
             \subseteq lk[l].flags
       /\ ~thr[t].linked

(* ----------------------------- C30 ------------------------------------- *)

\* C30: ldlm_cli_cancel_req goes round its loop for another attempt exactly
\* when the attempt before returned a timeout and the generation of the
\* import is the one the request was sent with; a reply of ESTALE is
\* reported as success; any other error, and a timeout after the
\* generation has changed, end the call with that error; an invalid import
\* ends it at the head of the loop without an attempt; and an attempt is
\* made only from the head of the loop on a valid import.
C30_ResendOnlyOnSameGenTimeout ==
    [][\A t \in Threads :
          /\ (thr[t].pc = "cr_wait" /\ thr'[t].pc # "cr_wait") =>
                /\ (thr'[t].pc = "cr_top")
                      <=> (/\ thr'[t].rc = "ETIMEDOUT"
                           /\ thr[t].rq_gen = imp.imp_generation)
                /\ thr'[t].pc # "cr_top" =>
                      /\ thr'[t].pc = "done"
                      /\ thr'[t].ret = IF thr'[t].rc \in {"OK", "ESTALE"}
                                       THEN "count" ELSE thr'[t].rc
                /\ thr'[t].tries = thr[t].tries
          /\ (thr[t].pc = "cr_top" /\ thr'[t].pc # "cr_top"
                 /\ imp.imp_invalid) =>
                /\ thr'[t].pc = "done"
                /\ thr'[t].ret = "count"
                /\ thr'[t].tries = thr[t].tries
          /\ thr'[t].tries > thr[t].tries =>
                /\ thr[t].pc = "cr_top"
                /\ ~imp.imp_invalid
                /\ thr'[t].tries = thr[t].tries + 1
      ]_vars

\* a second attempt is in flight after a timeout, and the import has been
\* invalidated since it was sent
C30_Witness ==
    \E t \in Threads :
       /\ thr[t].op = "req"
       /\ thr[t].pc = "cr_wait"
       /\ thr[t].tries = 2
       /\ thr[t].rc = "ETIMEDOUT"
       /\ thr[t].rq_gen # imp.imp_generation

(* ----------------------------- C31 ------------------------------------- *)

\* thread t takes the step of ldlm_prep_elc_req that chooses pack and hands
\* the list on, with ptlrpc_request_pack having succeeded
ElcPackStep(t) ==
    /\ thr[t].pc = "elc_pack"
    /\ thr'[t].pc # "elc_pack"
    /\ thr'[t].ret # "ENOMEM"

\* C31: with A free handle slots and C locks collected (the caller's plus
\* at most A taken from the LRU), ldlm_prep_elc_req on a connection with
\* cancel sets packs exactly P = min(A, C) handles and hands the other
\* C - P locks to a separate cancel batch; without cancel sets it packs
\* none, releases all C locks and sends no cancel.
C31_ElcPacksMinOfAvailAndCount ==
    [][\A t \in Threads :
          ElcPackStep(t) =>
             LET A == thr[t].avail
                 C == thr[t].count
                 P == IF A < C THEN A ELSE C
             IN  /\ C = Len(thr[t].cancels)
                 /\ C - thr[t].given <= A
                 /\ IF exp_connect_cancelset
                    THEN /\ thr'[t].pack = P
                         /\ Len(thr'[t].cancels) = C - P
                         /\ C - P = 0 =>
                               /\ thr'[t].pc = "done"
                               /\ thr'[t].rpc_sent = thr[t].rpc_sent
                         /\ C - P > 0 =>
                               /\ thr'[t].pc = "cl_loop"
                               /\ thr'[t].which = "cancels"
                               /\ thr'[t].l_count = C - P
                    ELSE /\ thr'[t].pack = 0
                         /\ thr'[t].cancels = <<>>
                         /\ thr'[t].pc = "done"
                         /\ thr'[t].rpc_sent = thr[t].rpc_sent]_vars

\* a request with one free slot prepared with two locks of the caller: one
\* handle is packed and the other lock is in the separate cancel batch
C31_Witness ==
    \E t \in Threads :
       /\ thr[t].op = "elc"
       /\ exp_connect_cancelset
       /\ thr[t].pc = "cl_loop"
       /\ thr[t].avail = 1
       /\ thr[t].given = 2
       /\ thr[t].pack = 1
       /\ thr[t].l_count = 1
       /\ Len(thr[t].cancels) = 1

(* ----------------------------- C32 ------------------------------------- *)

\* the flags of LDLM_LRU_FLAG_SHRINK, LRUR, PASSED, LRUR_NO_WAIT in the
\* order of the claim, and the policy each of them stands for
ResizeOrder == <<"SHRINK", "LRUR", "PASSED", "LRUR_NO_WAIT">>
ResizePolicy == <<"passed", "lrur", "passed", "lrur_no_wait">>

\* the policies there are
PolicyNames == {"no_wait", "passed", "lrur", "lrur_no_wait", "aged", "default"}

\* C32: ldlm_cancel_lru_policy gives no_wait for NO_WAIT whatever the
\* capability; otherwise with LRU resize the first set flag in the order
\* SHRINK, LRUR, PASSED, LRUR_NO_WAIT decides; without LRU resize AGED gives
\* aged; every other flags value gives default; some policy is returned
\* for every flags value.
C32_PolicyChoice ==
    \A t \in Threads :
       (thr[t].pc = "done" /\ thr[t].op = "policy") =>
          LET f == thr[t].s_flags
              set == {i \in 1..4 : ResizeOrder[i] \in f}
          IN  /\ thr[t].ret \in PolicyNames
              /\ "NO_WAIT" \in f => thr[t].ret = "no_wait"
              /\ ("NO_WAIT" \notin f /\ ns_connect_lru_resize /\ set # {}) =>
                    \E i \in set :
                       /\ \A j \in set : i <= j
                       /\ thr[t].ret = ResizePolicy[i]
              /\ ("NO_WAIT" \notin f /\ ns_connect_lru_resize /\ set = {}) =>
                    thr[t].ret = "default"
              /\ ("NO_WAIT" \notin f /\ ~ns_connect_lru_resize) =>
                    thr[t].ret = IF "AGED" \in f THEN "aged" ELSE "default"

\* with LRU resize a flags value with SHRINK, LRUR and AGED set got the
\* passed policy
C32_Witness ==
    \E t \in Threads :
       /\ thr[t].pc = "done"
       /\ thr[t].op = "policy"
       /\ ns_connect_lru_resize
       /\ thr[t].s_flags = {"SHRINK", "LRUR", "AGED"}
       /\ thr[t].ret = "passed"

(* ----------------------------- C33 ------------------------------------- *)

\* thread t has an answer of ldlm_cancel_lrur_policy
LrurAnswered(t) == thr[t].pc = "done" /\ thr[t].op = "lrur"

\* the age of the lock at the call, and its weight lvf * age * unused
LrurAge(t) == thr[t].last_use - lk[thr[t].cur].last_used
LrurWeight(t) == ns_pool_lvf * LrurAge(t) * thr[t].unused

\* C33 (as the code has it): the lru_resize policy answers KEEP when the
\* target is not 0 and added >= target; otherwise CANCEL when the lock has
\* been unused for longer than max_age, whatever the server lock volume;
\* otherwise KEEP when slv is 0 or the weight is below slv; otherwise, with
\* a weight of at least slv, CANCEL.
C33_LrurDecision ==
    \A t \in Threads :
       LrurAnswered(t) =>
          thr[t].ret =
             IF thr[t].s_count # 0 /\ thr[t].added >= thr[t].s_count
             THEN "KEEP"
             ELSE IF LrurAge(t) > ns_max_age THEN "CANCEL"
             ELSE IF thr[t].seen_slv = 0 \/ LrurWeight(t) < thr[t].seen_slv
             THEN "KEEP"
             ELSE "CANCEL"

\* C33 as stated: KEEP whenever added >= target, slv = 0 or the weight is
\* below slv, for every target; CANCEL only for a lock older than max_age
\* or a weight above slv
C33_KeepWheneverAddedReachesTarget ==
    \A t \in Threads :
       LrurAnswered(t) =>
          /\ (\/ thr[t].added >= thr[t].s_count
              \/ thr[t].seen_slv = 0
              \/ LrurWeight(t) < thr[t].seen_slv) => thr[t].ret = "KEEP"
          /\ thr[t].ret = "CANCEL" =>
                 \/ LrurAge(t) > ns_max_age
                 \/ LrurWeight(t) > thr[t].seen_slv

\* a call with target 0 and an unknown server lock volume for a lock older
\* than max_age: the answer is CANCEL
C33_Witness ==
    \E t \in Threads :
       /\ LrurAnswered(t)
       /\ thr[t].s_count = 0
       /\ thr[t].seen_slv = 0
       /\ LrurAge(t) > ns_max_age
       /\ thr[t].ret = "CANCEL"

(* ----------------------------- C34 ------------------------------------- *)

\* thread t asks the no_wait policy on its own in this step
NoWaitAsked(t) == thr[t].pc = "idle" /\ thr'[t].op = "nowait"

\* a scan of thread t asks the no_wait policy in this step
NoWaitScanAsks(t) ==
    /\ thr[t].pc = "prep_policy"
    /\ thr'[t].pc # "prep_policy"
    /\ ldlm_cancel_lru_policy(thr[t].s_flags) = "no_wait"

\* a no-wait scan of thread t hands a lock to the policy in this step
NoWaitScanPicks(t) ==
    /\ thr[t].pc # "prep_policy"
    /\ thr'[t].pc = "prep_policy"
    /\ NoWait(thr'[t])

\* C34: the no_wait policy never answers KEEP; it answers CANCEL only for
\* an EXTENT or IBITS lock when the namespace has a cancel predicate and
\* the predicate accepts the lock; in every other case it answers SKIP and
\* sets SKIPPED on the lock; a no-wait scan never hands a SKIPPED lock to
\* the policy.
C34_NoWaitSkipsOrCancels ==
    [][/\ \A t \in Threads :
             NoWaitAsked(t) =>
                LET l == thr'[t].cur
                    ok == /\ lk[l].type \in {"EXTENT", "IBITS"}
                          /\ thr'[t].rc = "accept"
                IN  /\ thr'[t].ret # "KEEP"
                    /\ ok => (thr'[t].ret = "CANCEL" /\ lk' = lk)
                    /\ ~ok =>
                          /\ thr'[t].ret = "SKIP"
                          /\ "SKIPPED" \in lk'[l].flags
       /\ \A t \in Threads :
             NoWaitScanAsks(t) =>
                /\ thr'[t].pc \in {"prep_scan", "prep_recheck"}
                /\ thr'[t].pc = "prep_recheck" =>
                      /\ lk[thr[t].cur].type \in {"EXTENT", "IBITS"}
                      /\ lk' = lk
                /\ thr'[t].pc = "prep_scan" =>
                      "SKIPPED" \in lk'[thr[t].cur].flags
       /\ \A t \in Threads :
             NoWaitScanPicks(t) =>
                "SKIPPED" \notin lk[thr'[t].cur].flags]_vars

\* the first lock a no-wait scan hands to the policy is the second of the
\* LRU: the first one is SKIPPED from an earlier call and was passed over
C34_Witness ==
    \E t \in Threads :
       /\ thr[t].op = "prep"
       /\ thr[t].pc = "prep_policy"
       /\ NoWait(thr[t])
       /\ Len(ns_unused_list) = 2
       /\ thr[t].cur = ns_unused_list[2]
       /\ thr[t].remained = thr[t].unused - 1
       /\ "SKIPPED" \in lk[ns_unused_list[1]].flags
       /\ lk[ns_unused_list[1]].last_used < now

(* ----------------------------- C35 ------------------------------------- *)

\* the scan of thread t comes back from its policy with CANCEL and decides
\* under the double lock in this step
ScanDecides(t) ==
    /\ thr[t].op = "prep"
    /\ thr[t].pc = "prep_recheck"
    /\ thr'[t].pc # "prep_recheck"

\* what the scan has to find under the double lock to add lock l
ScanMayAdd(t, l) ==
    /\ ~ldlm_is_canceling(l)
    /\ InSeq(ns_unused_list, l)
    /\ lk[l].last_used = thr[t].last_use

\* C35: whatever other threads did to the lock while the policy was asked
\* with the namespace lock released, ldlm_prepare_lru_list adds the lock
\* to the batch only if under the double lock it is not CANCELING and is
\* still on the LRU with the last_used stamp the scan saw; a lock that was
\* matched, re-used or marked for cancel in between is not added; every
\* added lock has no readers and writers, has CBPENDING and CANCELING set
\* and CANCEL_ON_BLOCK cleared, and has left the LRU.
C35_ScanAddsOnlyUntouched ==
    [][\A t \in Threads :
          ScanDecides(t) =>
             LET l == thr[t].cur
             IN  IF ScanMayAdd(t, l)
                 THEN /\ thr'[t].added = thr[t].added + 1
                      /\ InSeq(thr'[t].cancels, l)
                      /\ lk[l].refs = 0
                      /\ lk'[l].refs = 0
                      /\ {"CBPENDING", "CANCELING"} \subseteq lk'[l].flags
                      /\ "CANCEL_ON_BLOCK" \notin lk'[l].flags
                      /\ ~InSeq(ns_unused_list', l)
                 ELSE /\ thr'[t].added = thr[t].added
                      /\ thr'[t].cancels = thr[t].cancels
                      /\ lk' = lk
                      /\ ns_unused_list' = ns_unused_list]_vars

\* a scan that has added nothing went back to scanning after its re-check:
\* the lock it had picked was matched and released while the policy was
\* asked and is back on the LRU with a new stamp
C35_Witness ==
    \E t \in Threads :
       /\ thr[t].op = "prep"
       /\ thr[t].pc = "prep_scan"
       /\ thr[t].added = 0
       /\ thr[t].remained < thr[t].unused
       /\ Len(ns_unused_list) = 2
       /\ \A l \in Locks : lk[l].flags \cap {"CBPENDING", "CANCELING"} = {}
       /\ \E l \in Locks :
             /\ InSeq(ns_unused_list, l)
             /\ lk[l].refs = 0
             /\ lk[l].last_used = now

(* ----------------------------- C36 ------------------------------------- *)

\* thread t has a value of ldlm_cp_timeout
CpTimeoutKnown(t) == thr[t].pc = "done" /\ thr[t].op = "cp_timeout"

\* C36 (as the code has it): with adaptive timeouts on the completion wait
\* timeout is max((3 * estimate) mod 2^32, enqueue_min), which is never
\* below enqueue_min and is max(3 * estimate, enqueue_min) as long as
\* 3 * estimate fits into 32 bits; with adaptive timeouts off it is
\* obd_timeout, whatever enqueue_min is.
C36_CpTimeout ==
    \A t \in Threads :
       CpTimeoutKnown(t) =>
          LET a == thr[t].args
          IN  IF a.at_off
              THEN a.T = a.obd_timeout
              ELSE /\ ~U32Less(a.T, a.ldlm_enqueue_min)
                   /\ ~U32Less(a.T, U32Mul3(a.timeout))
                   /\ a.T \in {U32Mul3(a.timeout), a.ldlm_enqueue_min}

\* C36 as stated: for every configuration the timeout is
\* max(3 * estimate, enqueue_min): never below enqueue_min and never below
\* three times the estimate
C36_NeverBelowMinimum ==
    \A t \in Threads :
       CpTimeoutKnown(t) =>
          LET a == thr[t].args
          IN  /\ ~U32Less(a.T, a.ldlm_enqueue_min)
              /\ ~U32Mul3Wraps(a.timeout)
              /\ ~U32Less(a.T, U32Mul3(a.timeout))

\* adaptive timeouts off, obd_timeout 1 and enqueue_min 100: the timeout
\* is 1
C36_Witness ==
    \E t \in Threads :
       /\ CpTimeoutKnown(t)
       /\ thr[t].args.at_off
       /\ thr[t].args.obd_timeout = <<0, 1>>
       /\ thr[t].args.ldlm_enqueue_min = <<0, 100>>
       /\ thr[t].args.T = <<0, 1>>

(* ----------------------------- C37 ------------------------------------- *)

\* the reply to the replay of lock l is interpreted in this step
ReplayAnswered(l) ==
    /\ \A a \in imp.answered : a.lock # l
    /\ \E a \in imp'.answered : a.lock = l

\* C37: the replay reply interpreter takes imp_replay_inflight down by
\* one for each replay request whatever the status; on success it records
\* the remote handle of the reply on the lock and advances the recovery
\* state machine once; on every error (a status other than OK, a reply
\* without body, an unknown local handle) it asks for a reconnect of the
\* import, does not advance the recovery state machine and changes no
\* lock's remote handle.
C37_ReplayInterpreter ==
    [][\A l \in Locks :
          ReplayAnswered(l) =>
             \E a \in imp'.answered :
                /\ a.lock = l
                /\ imp'.answered = imp.answered \cup {a}
                /\ imp'.replay_inflight = imp.replay_inflight - 1
                /\ IF a.rc = "OK" /\ a.reply /\ a.found
                   THEN /\ lk'[l].remote = ReplyHandle
                        /\ \A o \in Locks \ {l} : lk'[o] = lk[o]
                        /\ imp'.recovery_steps = imp.recovery_steps + 1
                        /\ imp'.connect_calls = imp.connect_calls
                   ELSE /\ lk' = lk
                        /\ imp'.recovery_steps = imp.recovery_steps
                        /\ imp'.connect_calls = imp.connect_calls + 1]_vars

\* two replays were answered: one well, one for a lock that had been
\* destroyed; the counter is back at the guard count of the replay thread
\* or at zero
C37_Witness ==
    /\ Cardinality(imp.answered) = 2
    /\ \E a \in imp.answered : a.status = "OK"
    /\ \E a \in imp.answered : a.status = "ESTALE"
    /\ imp.recovery_steps = 1
    /\ imp.connect_calls = 1
    /\ imp.queued = 0

(* ----------------------------- C38 ------------------------------------- *)

\* C38 as stated: ldlm_cli_cancel_list, called with a batch of at least
\* count locks, takes exactly count locks off the batch and ends with its
\* remaining count at 0, and never finds the batch empty or shorter than
\* the remaining count, whatever the cancel RPCs return.
C38_ListEndsAtZero ==
    \A t \in Threads :
       thr[t].op = "list" =>
          /\ thr[t].pc # "lbug"
          /\ thr[t].pc = "cl_loop" =>
                /\ thr[t].l_count > 0
                /\ Len(thr[t].cancels) >= thr[t].l_count
                /\ thr[t].args.len - Len(thr[t].cancels)
                      = thr[t].args.count - thr[t].l_count
          /\ thr[t].pc = "done" =>
                Len(thr[t].cancels) = thr[t].args.len - thr[t].args.count

(* ----------------------------- C39 ------------------------------------- *)

\* C39: for an enqueue request prepared by ldlm_prep_enqueue_req and for a
\* cancel request prepared by ldlm_cli_cancel_req the buffer sized by
\* ldlm_request_bufsize has room for the handles counted in lock_count and
\* the handles about to be packed: the assertion of ldlm_cancel_pack
\* holds; an enqueue ends with lock_count = 1 + pack, a cancel with
\* lock_count = count.
C39_BufferHoldsHandles ==
    \A t \in Threads :
       thr[t].op = "buf" =>
          /\ thr[t].pc # "lbug"
          /\ thr[t].args.max >= thr[t].args.before + thr[t].args.count
          /\ thr[t].args.lock_count <= thr[t].args.max
          /\ thr[t].args.lock_count =
                (IF thr[t].args.opc = "LDLM_ENQUEUE" THEN 1 ELSE 0)
                   + thr[t].pack

\* an enqueue with three handles packed behind its own, and a cancel
\* request cut down to four handles
C39_Witness ==
    /\ \E t \in Threads :
          /\ thr[t].op = "buf"
          /\ thr[t].args.opc = "LDLM_ENQUEUE"
          /\ thr[t].pack = 3
          /\ thr[t].args.max = 4
    /\ \E t \in Threads :
          /\ thr[t].op = "buf"
          /\ thr[t].args.opc = "LDLM_CANCEL"
          /\ thr[t].avail = 4
          /\ thr[t].pack = 4
          /\ thr[t].args.max = 4

\* a thread is inside the send loop of ldlm_cli_cancel_req
InSendLoop(t) == thr[t].op = "req" /\ thr[t].pc \in {"cr_top", "cr_wait"}

\* a thread is inside the loop of ldlm_cli_cancel_list
InListLoop(t) == thr[t].op = "list" /\ thr[t].pc = "cl_loop"

\* one step of a thread that stays in the loop of ldlm_cli_cancel_list with
\* another batch
ListRoundStep(t) ==
    /\ InListLoop(t)
    /\ thr'[t].pc = "cl_loop"
    /\ thr'[t].cancels # thr[t].cancels

\* C40: when the cancel RPC does not time out on an unchanged import
\* generation for ever, a thread in the send loop of ldlm_cli_cancel_req
\* leaves it; every round of ldlm_cli_cancel_list takes at least one lock
\* off the batch, and a thread in its loop gets out of it, by the return
\* or by the assertion of line 1683
C40_CancelLoopsEnd ==
    /\ \A t \in Threads : InSendLoop(t) ~> (thr[t].pc = "done")
    /\ \A t \in Threads : InListLoop(t) ~> (thr[t].pc \in {"done", "lbug"})
    /\ [][\A t \in Threads :
            ListRoundStep(t) =>
               /\ Len(thr'[t].cancels) < Len(thr[t].cancels)
               /\ thr'[t].l_count < thr[t].l_count]_vars

\* a send loop that timed out on an unchanged generation until it had been
\* entered MaxAttempts times and then returned on another status
C40_Witness ==
    \E t \in Threads :
       /\ thr[t].op = "req"
       /\ thr[t].pc = "done"
       /\ thr[t].tries = MaxAttempts
       /\ thr[t].rq_gen = imp.imp_generation
       /\ thr[t].rc \in {"OK", "ESTALE", "ESHUTDOWN"}

====
